---- MODULE Spec2Model ----
(***************************************************************************)
(* Frame loop, swapchain recreation and shutdown of                        *)
(* hello_triangle_application (src/vp/src/vp.m.cpp), together with the     *)
(* parts of the Vulkan device and of the GLFW window the code talks to:    *)
(* fences, binary semaphores, the graphics and present queues, the         *)
(* framebuffer size and the window's event queue.                          *)
(*                                                                         *)
(* The host program is one sequential thread; `pc` is its position.  The   *)
(* device and the window system run concurrently with it.                  *)
(***************************************************************************)
EXTENDS Integers, Sequences, FiniteSets, TLC

(* ---------------------------------------------------------------------- *)
(* Program constants                                                      *)
(* ---------------------------------------------------------------------- *)
max_frames_in_flight == 2

InitWidth == 800

InitHeight == 600

(* ---------------------------------------------------------------------- *)
(* Bounds of the model                                                    *)
(* ---------------------------------------------------------------------- *)
\* draw_frame is called at most MaxFrames times
MaxFrames == 3

(* ---------------------------------------------------------------------- *)
(* Values                                                                 *)
(* ---------------------------------------------------------------------- *)
Slots == 0 .. (max_frames_in_flight - 1)

VK_SUCCESS == "VK_SUCCESS"

VK_SUBOPTIMAL_KHR == "VK_SUBOPTIMAL_KHR"

VK_ERROR_OUT_OF_DATE_KHR == "VK_ERROR_OUT_OF_DATE_KHR"

\* any other VkResult error code (device lost, surface lost, out of memory)
VK_ERROR_OTHER == "VK_ERROR_OTHER"

NoResult == "none"

VkResults == {VK_SUCCESS, VK_SUBOPTIMAL_KHR, VK_ERROR_OUT_OF_DATE_KHR, VK_ERROR_OTHER}

\* framebuffer sizes the window can have: the initial one, minimized, and a
\* degenerate one with only one dimension zero
FramebufferSizes == {<<InitWidth, InitHeight>>, <<0, 0>>, <<0, InitHeight>>}

\* image counts and extents are uint32_t; the model keeps the wrap-around
\* and the largest value of the type at a smaller width
ImageCountBits == 8

UintMax == 2 ^ ImageCountBits - 1

\* the (minImageCount, maxImageCount) pairs a surface may report to
\* create_swap_chain: small counts and the largest representable one, with
\* maxImageCount zero (no maximum) or not below minImageCount
ReportedCapabilities ==
    {c \in [minImageCount : {1, 2, 3, UintMax},
            maxImageCount : {0, 1, 2, 3, 4, UintMax}] :
        c.maxImageCount = 0 \/ c.maxImageCount >= c.minImageCount}

\* surface capabilities (minImageCount, maxImageCount; 0 = no maximum)
SurfaceCapabilities ==
    {c \in [minImageCount : {1}, maxImageCount : {0, 1, 2}] :
        c.maxImageCount = 0 \/ c.maxImageCount >= c.minImageCount}

NullHandle == <<"null", 0, 0>>

Handle(kind, g, i) == <<kind, g, i>>

RangeOf(seq) == {seq[i] : i \in 1 .. Len(seq)}

VARIABLES
    \* host program
    pc,                   \* position of the single host thread
    ret,                  \* where recreate_swap_chain returns to
    current_frame_,
    framebuffer_resized,
    width, height,        \* locals of recreate_swap_chain
    image_index,          \* local of draw_frame
    acquire_result,       \* `result` after vkAcquireNextImageKHR
    present_result,       \* `result` after vkQueuePresentKHR
    command_buffers_,     \* what each slot's command buffer has recorded
    \* window system
    fb_size,              \* the window's actual framebuffer size
    events,               \* kinds of events queued and not yet processed
    should_close,         \* the window's close flag
    \* device
    in_flight_fences_,    \* slot -> signaled?
    semaphores,           \* semaphore handle -> [state, frame]
    graphics_queue,       \* submissions not yet completed, in order
    present_queue,        \* present requests not yet processed, in order
    device_lost,
    \* device resources
    gen,                  \* number of swapchains created so far
    live,                 \* handles created and not destroyed
    swap_chain_,
    swap_chain_images_,
    swap_chain_image_views_,
    swap_chain_framebuffers_,
    color_image_, color_image_memory_, color_image_view_,
    depth_image_, depth_image_memory_, depth_image_view_,
    persistent_,          \* handles init_vulkan creates and only cleanup destroys
    \* main()
    exception,            \* what() of the exception in flight, if any
    exit_status,          \* the value main has returned, if it has
    error_stream,         \* the lines written to std::cerr
    \* bookkeeping of the run (not program state)
    frame_count,          \* draw_frame calls so far
    presented,            \* draw_frame calls that have reached vkQueuePresentKHR
    recreated,            \* recreate_swap_chain was called in the current frame
    resize_seen,          \* framebuffer_resized was true when draw_frame polled it
    \* calls of functions that are followed on their own
    find_memory_type_call,  \* arguments, locals and outcome of find_memory_type
    load_model_call,        \* input, locals and the vertex and index lists of load_model
    texture_image_call,     \* create_texture_image and its call of generate_mipmaps
    transition_image_layout_call,  \* arguments and outcome of transition_image_layout
    read_file_call,         \* the file, locals and outcome of read_file
    create_swap_chain_call, \* queue families and create info of create_swap_chain
    find_queue_families_call,  \* the families, locals and result of find_queue_families
    staged_upload_call,     \* a staged upload: staging buffer, one-shot command buffer
    init_vulkan_call,       \* the steps of init_vulkan and what each has created
    choose_swap_extent_call,  \* capabilities, window size and result of choose_swap_extent
    max_usable_sample_count_call  \* limits and result of max_usable_sample_count

hostVars == <<pc, ret, current_frame_, framebuffer_resized, width, height,
              image_index, acquire_result, present_result, command_buffers_>>

winVars == <<fb_size, events, should_close>>

devVars == <<in_flight_fences_, semaphores, graphics_queue, present_queue, device_lost>>

resVars == <<gen, live, swap_chain_, swap_chain_images_, swap_chain_image_views_,
             swap_chain_framebuffers_, color_image_, color_image_memory_,
             color_image_view_, depth_image_, depth_image_memory_,
             depth_image_view_, persistent_>>

histVars == <<frame_count, presented, recreated, resize_seen>>

mainVars == <<exception, exit_status, error_stream>>

fnVars == <<find_memory_type_call, load_model_call, texture_image_call,
            transition_image_layout_call, read_file_call, create_swap_chain_call,
            find_queue_families_call, staged_upload_call, init_vulkan_call,
            choose_swap_extent_call, max_usable_sample_count_call>>

\* the variables of the frame loop, of the device and of the window
loopVars == <<hostVars, winVars, devVars, resVars, histVars, mainVars>>

vars == <<loopVars, fnVars>>

(* ---------------------------------------------------------------------- *)
(* Handles of the per-slot synchronisation objects                        *)
(* ---------------------------------------------------------------------- *)
image_available_semaphores_(s) == Handle("image_available_semaphore", 0, s)

render_finished_semaphores_(s) == Handle("render_finished_semaphore", 0, s)

FenceHandle(s) == Handle("in_flight_fence", 0, s)

SemaphoreHandles ==
    {image_available_semaphores_(s) : s \in Slots}
        \cup {render_finished_semaphores_(s) : s \in Slots}

Unsignaled == [state |-> "unsignaled", frame |-> 0]

\* value of a call variable while the function it follows is not running
NotCalled == [at |-> "not_called"]

\* no exception is in flight
NoException == "none"

\* exit_status while main has not returned; <<status>> once it has
Running == <<>>

EXIT_SUCCESS == 0

EXIT_FAILURE == 1

(* ---------------------------------------------------------------------- *)
(* Initial state: the object is constructed, the window exists             *)
(* (init_window), nothing of Vulkan has been created yet.                  *)
(* ---------------------------------------------------------------------- *)
LoopInit ==
    /\ pc = "init_vulkan"
    /\ ret = "none"
    /\ current_frame_ = 0
    /\ framebuffer_resized = FALSE
    /\ width = 0
    /\ height = 0
    /\ image_index = 0
    /\ acquire_result = NoResult
    /\ present_result = NoResult
    /\ command_buffers_ = [s \in Slots |-> [framebuffer |-> NullHandle,
                                             attachments |-> <<>>,
                                             descriptor_set |-> -1]]
    /\ fb_size = <<InitWidth, InitHeight>>
    /\ events = {}
    /\ should_close = FALSE
    /\ in_flight_fences_ = [s \in Slots |-> FALSE]
    /\ semaphores = [h \in SemaphoreHandles |-> Unsignaled]
    /\ graphics_queue = <<>>
    /\ present_queue = <<>>
    /\ device_lost = FALSE
    /\ gen = 0
    /\ live = {}
    /\ swap_chain_ = NullHandle
    /\ swap_chain_images_ = <<>>
    /\ swap_chain_image_views_ = <<>>
    /\ swap_chain_framebuffers_ = <<>>
    /\ color_image_ = NullHandle
    /\ color_image_memory_ = NullHandle
    /\ color_image_view_ = NullHandle
    /\ depth_image_ = NullHandle
    /\ depth_image_memory_ = NullHandle
    /\ depth_image_view_ = NullHandle
    /\ persistent_ = {}
    /\ frame_count = 0
    /\ presented = 0
    /\ recreated = FALSE
    /\ resize_seen = FALSE
    /\ exception = NoException
    /\ exit_status = Running
    /\ error_stream = <<>>

\* the run of the application, from init_vulkan on
Init ==
    /\ LoopInit
    /\ find_queue_families_call = NotCalled
    /\ staged_upload_call = NotCalled
    /\ init_vulkan_call = NotCalled
    /\ choose_swap_extent_call = NotCalled
    /\ max_usable_sample_count_call = NotCalled
    /\ find_memory_type_call = NotCalled
    /\ load_model_call = NotCalled
    /\ texture_image_call = NotCalled
    /\ transition_image_layout_call = NotCalled
    /\ read_file_call = NotCalled
    /\ create_swap_chain_call = NotCalled

(* ---------------------------------------------------------------------- *)
(* Device resources                                                       *)
(* ---------------------------------------------------------------------- *)
\* create_swap_chain: the image count requested from the device
ImageCount(capabilities) ==
    LET image_count == (capabilities.minImageCount + 1) % (2 ^ ImageCountBits)
    IN  IF capabilities.maxImageCount > 0
        THEN IF capabilities.maxImageCount < image_count
             THEN capabilities.maxImageCount
             ELSE image_count
        ELSE image_count

SwapChainImages(g, n) == [i \in 1 .. n |-> Handle("swapchain_image", g, i)]

\* (variant: the last swapchain image gets no view)
ImageViewsFor_SkipLast(images, g) ==
    [i \in 1 .. (Len(images) - 1) |-> Handle("swapchain_image_view", g, i)]

\* create_image_views: one view per swapchain image
ImageViewsFor(images, g) ==
    [i \in 1 .. Len(images) |-> Handle("swapchain_image_view", g, i)]

\* create_framebuffers: one framebuffer per swapchain image view, each with
\* the attachments {color_image_view_, depth_image_view_, swapchain view}
FramebuffersFor(views, color_view, depth_view, g) ==
    [i \in 1 .. Len(views) |->
        [handle |-> Handle("framebuffer", g, i),
         attachments |-> <<color_view, depth_view, views[i]>>]]

FramebufferHandles(fbs) == {fbs[i].handle : i \in 1 .. Len(fbs)}

\* (variant: cleanup_swap_chain also destroys the render pass)
CleanupSwapChainHandles_WithRenderPass ==
    {color_image_view_, color_image_, color_image_memory_,
     depth_image_view_, depth_image_, depth_image_memory_}
        \cup FramebufferHandles(swap_chain_framebuffers_)
        \cup RangeOf(swap_chain_image_views_)
        \cup {swap_chain_, Handle("render_pass", 0, 0)}

\* the handles cleanup_swap_chain passes to vkDestroy*/vkFreeMemory
CleanupSwapChainHandles ==
    {color_image_view_, color_image_, color_image_memory_,
     depth_image_view_, depth_image_, depth_image_memory_}
        \cup FramebufferHandles(swap_chain_framebuffers_)
        \cup RangeOf(swap_chain_image_views_)
        \cup {swap_chain_}

\* the handles that recreate_swap_chain creates anew after the teardown:
\* create_swap_chain, create_image_views, create_depth_resources,
\* create_framebuffers
RecreatedKinds ==
    {"swapchain", "swapchain_image_view", "depth_image", "depth_image_memory",
     "depth_image_view", "framebuffer"}

\* everything else init_vulkan creates; only cleanup destroys these
PersistentHandles ==
    {Handle(k, 0, 0) :
        k \in {"texture_sampler", "texture_image_view", "texture_image",
               "texture_image_memory", "descriptor_pool", "descriptor_set_layout",
               "index_buffer", "index_buffer_memory", "vertex_buffer",
               "vertex_buffer_memory", "graphics_pipeline", "pipeline_layout",
               "render_pass", "command_pool"}}
        \cup {Handle(k, 0, s) : k \in {"uniform_buffer", "uniform_buffer_memory"},
                                s \in Slots}
        \cup SemaphoreHandles
        \cup {FenceHandle(s) : s \in Slots}

\* vkDestroy*/vkFreeMemory on every handle of hs.  Destroying a handle that
\* is not live is undefined behaviour: the call may go unnoticed or the
\* process may crash.
Destroy(hs, next_pc) ==
    /\ live' = live \ hs
    /\ pc' \in (IF hs \subseteq live THEN {next_pc} ELSE {next_pc, "crashed"})

\* (variant: the fences are created without VK_FENCE_CREATE_SIGNALED_BIT)
FenceCreatedSignaled_Unsignaled == FALSE

\* create_sync_objects: fence_info.flags = VK_FENCE_CREATE_SIGNALED_BIT
FenceCreatedSignaled == TRUE

(* ---------------------------------------------------------------------- *)
(* init_vulkan                                                            *)
(* ---------------------------------------------------------------------- *)
InitVulkan ==
    /\ pc = "init_vulkan"
    /\ \E capabilities \in SurfaceCapabilities :
         LET n == ImageCount(capabilities)
             images == SwapChainImages(1, n)
             views == ImageViewsFor(images, 1)
             color == Handle("color_image_view", 1, 0)
             depth == Handle("depth_image_view", 1, 0)
             fbs == FramebuffersFor(views, color, depth, 1)
         IN  /\ gen' = 1
             /\ swap_chain_' = Handle("swapchain", 1, 0)
             /\ swap_chain_images_' = images
             /\ swap_chain_image_views_' = views
             /\ color_image_' = Handle("color_image", 1, 0)
             /\ color_image_memory_' = Handle("color_image_memory", 1, 0)
             /\ color_image_view_' = color
             /\ depth_image_' = Handle("depth_image", 1, 0)
             /\ depth_image_memory_' = Handle("depth_image_memory", 1, 0)
             /\ depth_image_view_' = depth
             /\ swap_chain_framebuffers_' = fbs
             /\ persistent_' = PersistentHandles
             /\ live' = {Handle("swapchain", 1, 0), Handle("color_image", 1, 0),
                         Handle("color_image_memory", 1, 0), color,
                         Handle("depth_image", 1, 0),
                         Handle("depth_image_memory", 1, 0), depth}
                            \cup RangeOf(views) \cup FramebufferHandles(fbs)
                            \cup PersistentHandles
    \* create_sync_objects: fences are created signaled, semaphores unsignaled
    /\ in_flight_fences_' = [s \in Slots |-> FenceCreatedSignaled]
    /\ pc' = "loop_test"
    /\ UNCHANGED <<ret, current_frame_, framebuffer_resized, width, height,
                   image_index, acquire_result, present_result, command_buffers_>>
    /\ UNCHANGED <<semaphores, graphics_queue, present_queue, device_lost>>
    /\ UNCHANGED <<winVars, histVars>>
    /\ UNCHANGED fnVars
    /\ UNCHANGED mainVars

(* ---------------------------------------------------------------------- *)
(* Window system                                                          *)
(* ---------------------------------------------------------------------- *)
\* The host observes the window only where it queries the framebuffer size
\* (recreate_swap_chain) or processes the event queue (glfwPollEvents,
\* glfwWaitEvents).  What the window system does between two such points is
\* seen by the host at the later one, so the model lets the window act only
\* while the host is at one of them.
SizeObservationPoints == {"poll", "rc_enter", "rc_query", "rc_wait"}

EventObservationPoints == {"poll", "rc_wait"}

\* the user resizes, minimizes or restores the window
WindowResize ==
    /\ pc \in SizeObservationPoints
    /\ \E sz \in FramebufferSizes \ {fb_size} : fb_size' = sz
    /\ events' = events \cup {"resize"}
    /\ UNCHANGED <<should_close, hostVars, devVars, resVars, histVars>>
    /\ UNCHANGED fnVars
    /\ UNCHANGED mainVars

\* any event that carries no size change (mouse, keyboard, focus)
WindowInput ==
    /\ pc \in EventObservationPoints
    /\ "input" \notin events
    /\ events' = events \cup {"input"}
    /\ UNCHANGED <<fb_size, should_close, hostVars, devVars, resVars, histVars>>
    /\ UNCHANGED fnVars
    /\ UNCHANGED mainVars

\* the user asks to close the window
WindowClose ==
    /\ pc \in EventObservationPoints
    /\ ~should_close
    /\ "close" \notin events
    /\ events' = events \cup {"close"}
    /\ UNCHANGED <<fb_size, should_close, hostVars, devVars, resVars, histVars>>
    /\ UNCHANGED fnVars
    /\ UNCHANGED mainVars

\* framebuffer_resize_callback, run for every queued size event
ResizedAfterCallbacks(flag, evs) == flag \/ "resize" \in evs

\* glfwPollEvents / glfwWaitEvents process every queued event: the size
\* callback sets framebuffer_resized, a close event sets the close flag
ProcessEvents ==
    /\ framebuffer_resized' = ResizedAfterCallbacks(framebuffer_resized, events)
    /\ should_close' = (should_close \/ "close" \in events)
    /\ events' = {}

(* ---------------------------------------------------------------------- *)
(* Decisions the host code takes                                          *)
(* ---------------------------------------------------------------------- *)
\* vkWaitForFences(in_flight_fences_[s], infinite timeout) returns when the
\* fence is signaled (or at once, with an error the code ignores, when the
\* device is lost)
\* (variant: draw_frame does not wait for the fence)
FenceWaitReturns_NoWait(s) == TRUE

FenceWaitReturns(s) == in_flight_fences_[s] \/ device_lost

\* vkDeviceWaitIdle returns when no queue has outstanding work
\* (variant: the vkDeviceWaitIdle call is missing)
DeviceWaitIdleReturns_NoWait == TRUE

DeviceWaitIdleReturns == graphics_queue = <<>> /\ present_queue = <<>>

\* (variant: a suboptimal acquire is treated like an out-of-date one)
AcquireOutcome_RecreateOnSuboptimal(result) ==
    IF result = VK_ERROR_OUT_OF_DATE_KHR \/ result = VK_SUBOPTIMAL_KHR THEN "recreate"
    ELSE IF result # VK_SUCCESS THEN "throw"
    ELSE "continue"

\* (variant: an out-of-date acquire is not a reason to leave the frame)
AcquireOutcome_IgnoreOutOfDate(result) ==
    IF result # VK_SUCCESS /\ result # VK_SUBOPTIMAL_KHR
          /\ result # VK_ERROR_OUT_OF_DATE_KHR THEN "throw"
    ELSE "continue"

\* draw_frame after vkAcquireNextImageKHR
AcquireOutcome(result) ==
    IF result = VK_ERROR_OUT_OF_DATE_KHR THEN "recreate"
    ELSE IF result # VK_SUCCESS /\ result # VK_SUBOPTIMAL_KHR THEN "throw"
    ELSE "continue"

\* (variant: a suboptimal present is not a reason to recreate)
PresentOutcome_IgnoreSuboptimal(result, resized) ==
    IF result = VK_ERROR_OUT_OF_DATE_KHR \/ resized THEN "recreate"
    ELSE IF result # VK_SUCCESS /\ result # VK_SUBOPTIMAL_KHR THEN "throw"
    ELSE "continue"

\* (variant: the present test does not look at framebuffer_resized)
PresentOutcome_IgnoreResized(result, resized) ==
    IF result = VK_ERROR_OUT_OF_DATE_KHR \/ result = VK_SUBOPTIMAL_KHR
    THEN "recreate"
    ELSE IF result # VK_SUCCESS THEN "throw"
    ELSE "continue"

\* draw_frame after vkQueuePresentKHR
PresentOutcome(result, resized) ==
    IF result = VK_ERROR_OUT_OF_DATE_KHR \/ result = VK_SUBOPTIMAL_KHR \/ resized
    THEN "recreate"
    ELSE IF result # VK_SUCCESS THEN "throw"
    ELSE "continue"

\* the condition of recreate_swap_chain's wait loop
WaitLoopCondition(w, h) == w = 0 \/ h = 0

\* (variant: the slot index is not advanced)
NextFrame_Stay(current) == current

\* the end of draw_frame
NextFrame(current) == (current + 1) % max_frames_in_flight

\* the VkSubmitInfo and fence draw_frame passes to vkQueueSubmit
SubmitInfo(s) ==
    [wait |-> image_available_semaphores_(s),
     signal |-> render_finished_semaphores_(s),
     fence |-> s,
     command_buffer |-> s]

\* the VkPresentInfoKHR draw_frame passes to vkQueuePresentKHR
PresentInfo(s, index) ==
    [wait |-> render_finished_semaphores_(s),
     swapchain |-> swap_chain_,
     image |-> index]

\* record_command_buffer: the render pass begins on the framebuffer of the
\* acquired image and the descriptor set of the current slot is bound
RecordedCommands(index) ==
    [framebuffer |-> swap_chain_framebuffers_[index + 1].handle,
     attachments |-> swap_chain_framebuffers_[index + 1].attachments,
     descriptor_set |-> current_frame_]

\* slot s's command buffer has been submitted and has not completed
PendingOnSlot(s) ==
    \E i \in 1 .. Len(graphics_queue) : graphics_queue[i].command_buffer = s

(* ---------------------------------------------------------------------- *)
(* mainLoop and draw_frame                                                *)
(* ---------------------------------------------------------------------- *)
\* while (!glfwWindowShouldClose(window))
MainLoopTest ==
    /\ pc = "loop_test"
    /\ IF should_close
       THEN pc' = "main_idle"
       ELSE /\ frame_count < MaxFrames
            /\ pc' = "poll"
    /\ UNCHANGED <<ret, current_frame_, framebuffer_resized, width, height,
                   image_index, acquire_result, present_result, command_buffers_>>
    /\ UNCHANGED <<winVars, devVars, resVars, histVars>>
    /\ UNCHANGED fnVars
    /\ UNCHANGED mainVars

\* glfwPollEvents(), then draw_frame() is entered
PollEvents ==
    /\ pc = "poll"
    /\ ProcessEvents
    /\ pc' = "wait_fence"
    /\ frame_count' = frame_count + 1
    /\ UNCHANGED <<ret, current_frame_, width, height, image_index,
                   acquire_result, present_result, command_buffers_, fb_size>>
    /\ UNCHANGED <<devVars, resVars, presented, recreated, resize_seen>>
    /\ UNCHANGED fnVars
    /\ UNCHANGED mainVars

WaitForFences ==
    /\ pc = "wait_fence"
    /\ FenceWaitReturns(current_frame_)
    /\ pc' = "acquire"
    /\ UNCHANGED <<ret, current_frame_, framebuffer_resized, width, height,
                   image_index, acquire_result, present_result, command_buffers_>>
    /\ UNCHANGED <<winVars, devVars, resVars, histVars>>
    /\ UNCHANGED fnVars
    /\ UNCHANGED mainVars

\* vkAcquireNextImageKHR and the test that follows it.  On success or
\* suboptimal the call queues the signal of the slot's image-available
\* semaphore; only the submission that waits on it observes when the signal
\* happens, so its delay is part of the delay of that submission's start.
AcquireNextImage ==
    /\ pc = "acquire"
    /\ \E r \in VkResults :
         /\ device_lost => r = VK_ERROR_OTHER
         /\ acquire_result' = r
         /\ exception' = IF AcquireOutcome(r) = "throw"
                          THEN "failed to acquire swap chain image"
                          ELSE exception
         /\ CASE AcquireOutcome(r) = "recreate" ->
                   /\ pc' = "rc_call"
                   /\ ret' = "loop_test"
                   /\ recreated' = TRUE
                   /\ UNCHANGED <<image_index, semaphores>>
              [] AcquireOutcome(r) = "throw" ->
                   /\ pc' = "failed"
                   /\ UNCHANGED <<ret, recreated, image_index, semaphores>>
              [] OTHER ->
                   /\ \E i \in 0 .. (Len(swap_chain_images_) - 1) : image_index' = i
                   /\ semaphores' = [semaphores EXCEPT
                          ![image_available_semaphores_(current_frame_)] =
                              [state |-> "signaled", frame |-> frame_count]]
                   /\ pc' = "reset_fence"
                   /\ UNCHANGED <<ret, recreated>>
    /\ UNCHANGED <<current_frame_, framebuffer_resized, width, height,
                   present_result, command_buffers_>>
    /\ UNCHANGED <<in_flight_fences_, graphics_queue, present_queue, device_lost>>
    /\ UNCHANGED <<winVars, resVars, frame_count, presented, resize_seen>>
    /\ UNCHANGED fnVars
    /\ UNCHANGED <<exit_status, error_stream>>

ResetFences ==
    /\ pc = "reset_fence"
    /\ in_flight_fences_' = [in_flight_fences_ EXCEPT ![current_frame_] = FALSE]
    /\ pc' = "record"
    /\ UNCHANGED <<ret, current_frame_, framebuffer_resized, width, height,
                   image_index, acquire_result, present_result, command_buffers_>>
    /\ UNCHANGED <<semaphores, graphics_queue, present_queue, device_lost>>
    /\ UNCHANGED <<winVars, resVars, histVars>>
    /\ UNCHANGED fnVars
    /\ UNCHANGED mainVars

\* vkResetCommandBuffer + record_command_buffer
RecordCommandBuffer ==
    /\ pc = "record"
    /\ command_buffers_' = [command_buffers_ EXCEPT
           ![current_frame_] = RecordedCommands(image_index)]
    /\ pc' = "update_ubo"
    /\ UNCHANGED <<ret, current_frame_, framebuffer_resized, width, height,
                   image_index, acquire_result, present_result>>
    /\ UNCHANGED <<winVars, devVars, resVars, histVars>>
    /\ UNCHANGED fnVars
    /\ UNCHANGED mainVars

\* update_uniform_buffer(current_frame_): a memcpy into the mapped buffer
UpdateUniformBuffer ==
    /\ pc = "update_ubo"
    /\ pc' = "submit"
    /\ UNCHANGED <<ret, current_frame_, framebuffer_resized, width, height,
                   image_index, acquire_result, present_result, command_buffers_>>
    /\ UNCHANGED <<winVars, devVars, resVars, histVars>>
    /\ UNCHANGED fnVars
    /\ UNCHANGED mainVars

\* vkQueueSubmit; a failure throws
QueueSubmit ==
    /\ pc = "submit"
    /\ \E ok \in BOOLEAN :
         /\ device_lost => ~ok
         /\ exception' = IF ok THEN exception
                          ELSE "failed to submit draw command buffer"
         /\ IF ok
            THEN /\ graphics_queue' = Append(graphics_queue,
                        [wait |-> SubmitInfo(current_frame_).wait,
                         signal |-> SubmitInfo(current_frame_).signal,
                         fence |-> SubmitInfo(current_frame_).fence,
                         command_buffer |-> SubmitInfo(current_frame_).command_buffer,
                         commands |->
                             command_buffers_[SubmitInfo(current_frame_).command_buffer],
                         frame |-> frame_count])
                 /\ pc' = "present"
            ELSE /\ pc' = "failed"
                 /\ UNCHANGED graphics_queue
    /\ UNCHANGED <<ret, current_frame_, framebuffer_resized, width, height,
                   image_index, acquire_result, present_result, command_buffers_>>
    /\ UNCHANGED <<in_flight_fences_, semaphores, present_queue, device_lost>>
    /\ UNCHANGED <<winVars, resVars, histVars>>
    /\ UNCHANGED fnVars
    /\ UNCHANGED <<exit_status, error_stream>>

\* vkQueuePresentKHR and the test that follows it.  On success, suboptimal
\* and out-of-date the request's semaphore wait is queued; on any other
\* error it is queued or not, depending on the error (it is for a lost
\* surface, it is not when the call runs out of memory or the device is
\* lost).  The image is shown only on success or suboptimal.
QueuePresent ==
    /\ pc = "present"
    /\ \E r \in VkResults, queued \in BOOLEAN :
         /\ device_lost => r = VK_ERROR_OTHER /\ ~queued
         /\ r # VK_ERROR_OTHER => queued
         /\ present_result' = r
         /\ exception' = IF PresentOutcome(r, framebuffer_resized) = "throw"
                          THEN "failed to present swap chain image!"
                          ELSE exception
         /\ present_queue' =
                IF ~queued
                THEN present_queue
                ELSE Append(present_queue,
                        [wait |-> PresentInfo(current_frame_, image_index).wait,
                         swapchain |-> PresentInfo(current_frame_, image_index).swapchain,
                         image |-> PresentInfo(current_frame_, image_index).image,
                         frame |-> frame_count,
                         shown |-> r \in {VK_SUCCESS, VK_SUBOPTIMAL_KHR}])
         /\ CASE PresentOutcome(r, framebuffer_resized) = "recreate" ->
                   /\ framebuffer_resized' = FALSE
                   /\ recreated' = TRUE
                   /\ pc' = "rc_call"
                   /\ ret' = "advance"
              [] PresentOutcome(r, framebuffer_resized) = "throw" ->
                   /\ pc' = "failed"
                   /\ UNCHANGED <<framebuffer_resized, recreated, ret>>
              [] OTHER ->
                   /\ pc' = "advance"
                   /\ UNCHANGED <<framebuffer_resized, recreated, ret>>
    /\ resize_seen' = framebuffer_resized
    /\ presented' = presented + 1
    /\ UNCHANGED <<current_frame_, width, height, image_index, acquire_result,
                   command_buffers_>>
    /\ UNCHANGED <<in_flight_fences_, semaphores, graphics_queue, device_lost>>
    /\ UNCHANGED <<winVars, resVars, frame_count>>
    /\ UNCHANGED fnVars
    /\ UNCHANGED <<exit_status, error_stream>>

\* current_frame_ = (current_frame_ + 1) % max_frames_in_flight; draw_frame
\* returns: its locals and the frame's bookkeeping end
AdvanceFrame ==
    /\ pc = "advance"
    /\ current_frame_' = NextFrame(current_frame_)
    /\ pc' = "loop_test"
    /\ image_index' = 0
    /\ acquire_result' = NoResult
    /\ present_result' = NoResult
    /\ recreated' = FALSE
    /\ resize_seen' = FALSE
    /\ UNCHANGED <<ret, framebuffer_resized, width, height, command_buffers_>>
    /\ UNCHANGED <<winVars, devVars, resVars, frame_count, presented>>
    /\ UNCHANGED fnVars
    /\ UNCHANGED mainVars

(* ---------------------------------------------------------------------- *)
(* recreate_swap_chain                                                    *)
(* ---------------------------------------------------------------------- *)
hostLocals == <<current_frame_, image_index, acquire_result, present_result,
                command_buffers_>>

resFields == <<color_image_, color_image_memory_, color_image_view_, persistent_>>

depthFields == <<depth_image_, depth_image_memory_, depth_image_view_>>

\* the call itself.  draw_frame reads neither `result` nor image_index again
\* once it has called recreate_swap_chain: the model forgets them here.
RecreateCall ==
    /\ pc = "rc_call"
    /\ pc' = "rc_enter"
    /\ acquire_result' = NoResult
    /\ present_result' = NoResult
    /\ image_index' = 0
    /\ resize_seen' = FALSE
    /\ UNCHANGED <<ret, framebuffer_resized, width, height, current_frame_,
                   command_buffers_>>
    /\ UNCHANGED <<winVars, devVars, resVars, frame_count, presented, recreated>>
    /\ UNCHANGED fnVars
    /\ UNCHANGED mainVars

\* glfwGetFramebufferSize before the loop, and the loop's first test
RecreateEnter ==
    /\ pc = "rc_enter"
    /\ width' = fb_size[1]
    /\ height' = fb_size[2]
    /\ pc' = IF WaitLoopCondition(fb_size[1], fb_size[2]) THEN "rc_query" ELSE "rc_idle"
    /\ UNCHANGED <<ret, framebuffer_resized, hostLocals>>
    /\ UNCHANGED <<winVars, devVars, resVars, histVars>>
    /\ UNCHANGED fnVars
    /\ UNCHANGED mainVars

\* glfwGetFramebufferSize inside the loop
RecreateQuerySize ==
    /\ pc = "rc_query"
    /\ width' = fb_size[1]
    /\ height' = fb_size[2]
    /\ pc' = "rc_wait"
    /\ UNCHANGED <<ret, framebuffer_resized, hostLocals>>
    /\ UNCHANGED <<winVars, devVars, resVars, histVars>>
    /\ UNCHANGED fnVars
    /\ UNCHANGED mainVars

\* glfwWaitEvents blocks until an event is queued and processes the queue;
\* then the loop tests the sizes read before the wait
RecreateWaitEvents ==
    /\ pc = "rc_wait"
    /\ events # {}
    /\ ProcessEvents
    /\ pc' = IF WaitLoopCondition(width, height) THEN "rc_query" ELSE "rc_idle"
    /\ UNCHANGED <<ret, width, height, hostLocals, fb_size>>
    /\ UNCHANGED <<devVars, resVars, histVars>>
    /\ UNCHANGED fnVars
    /\ UNCHANGED mainVars

RecreateDeviceWaitIdle ==
    /\ pc = "rc_idle"
    /\ DeviceWaitIdleReturns
    /\ pc' = "rc_cleanup"
    /\ UNCHANGED <<ret, framebuffer_resized, width, height, hostLocals>>
    /\ UNCHANGED <<winVars, devVars, resVars, histVars>>
    /\ UNCHANGED fnVars
    /\ UNCHANGED mainVars

\* cleanup_swap_chain, called from recreate_swap_chain
RecreateCleanupSwapChain ==
    /\ pc = "rc_cleanup"
    /\ Destroy(CleanupSwapChainHandles, "rc_create_swap_chain")
    /\ UNCHANGED <<ret, framebuffer_resized, width, height, hostLocals>>
    /\ UNCHANGED <<winVars, devVars, histVars>>
    /\ UNCHANGED <<gen, swap_chain_, swap_chain_images_, swap_chain_image_views_,
                   swap_chain_framebuffers_, resFields, depthFields>>
    /\ UNCHANGED fnVars
    /\ UNCHANGED mainVars

\* create_swap_chain; vkCreateSwapchainKHR may fail, which throws
RecreateCreateSwapChain ==
    /\ pc = "rc_create_swap_chain"
    /\ \/ /\ pc' = "failed"
          /\ exception' = "failed to create swap chain!"
          /\ UNCHANGED <<gen, swap_chain_, swap_chain_images_, live>>
       \/ \E capabilities \in SurfaceCapabilities :
            /\ gen' = gen + 1
            /\ swap_chain_' = Handle("swapchain", gen + 1, 0)
            /\ swap_chain_images_' = SwapChainImages(gen + 1, ImageCount(capabilities))
            /\ live' = live \cup {Handle("swapchain", gen + 1, 0)}
            /\ pc' = "rc_create_image_views"
            /\ UNCHANGED exception
    /\ UNCHANGED <<ret, framebuffer_resized, width, height, hostLocals>>
    /\ UNCHANGED <<winVars, devVars, histVars>>
    /\ UNCHANGED <<swap_chain_image_views_, swap_chain_framebuffers_, resFields,
                   depthFields>>
    /\ UNCHANGED fnVars
    /\ UNCHANGED <<exit_status, error_stream>>

RecreateCreateImageViews ==
    /\ pc = "rc_create_image_views"
    /\ swap_chain_image_views_' = ImageViewsFor(swap_chain_images_, gen)
    /\ live' = live \cup RangeOf(ImageViewsFor(swap_chain_images_, gen))
    /\ pc' = "rc_create_depth"
    /\ UNCHANGED <<ret, framebuffer_resized, width, height, hostLocals>>
    /\ UNCHANGED <<winVars, devVars, histVars>>
    /\ UNCHANGED <<gen, swap_chain_, swap_chain_images_, swap_chain_framebuffers_,
                   resFields, depthFields>>
    /\ UNCHANGED fnVars
    /\ UNCHANGED mainVars

\* create_depth_resources (its layout transition is a one-shot command
\* buffer that is waited for before the call returns)
RecreateCreateDepthResources ==
    /\ pc = "rc_create_depth"
    /\ depth_image_' = Handle("depth_image", gen, 0)
    /\ depth_image_memory_' = Handle("depth_image_memory", gen, 0)
    /\ depth_image_view_' = Handle("depth_image_view", gen, 0)
    /\ live' = live \cup {Handle("depth_image", gen, 0),
                          Handle("depth_image_memory", gen, 0),
                          Handle("depth_image_view", gen, 0)}
    /\ pc' = "rc_create_framebuffers"
    /\ UNCHANGED <<ret, framebuffer_resized, width, height, hostLocals>>
    /\ UNCHANGED <<winVars, devVars, histVars>>
    /\ UNCHANGED <<gen, swap_chain_, swap_chain_images_, swap_chain_image_views_,
                   swap_chain_framebuffers_, resFields>>
    /\ UNCHANGED fnVars
    /\ UNCHANGED mainVars

\* create_framebuffers, then recreate_swap_chain returns
RecreateCreateFramebuffers ==
    /\ pc = "rc_create_framebuffers"
    /\ swap_chain_framebuffers_' =
           FramebuffersFor(swap_chain_image_views_, color_image_view_,
                           depth_image_view_, gen)
    /\ live' = live \cup FramebufferHandles(
                   FramebuffersFor(swap_chain_image_views_, color_image_view_,
                                   depth_image_view_, gen))
    /\ pc' = ret
    /\ ret' = "none"
    /\ width' = 0
    /\ height' = 0
    \* returning to mainLoop ends the draw_frame call
    /\ recreated' = IF ret = "loop_test" THEN FALSE ELSE recreated
    /\ UNCHANGED <<framebuffer_resized, hostLocals>>
    /\ UNCHANGED <<winVars, devVars, frame_count, presented, resize_seen>>
    /\ UNCHANGED <<gen, swap_chain_, swap_chain_images_, swap_chain_image_views_,
                   resFields, depthFields>>
    /\ UNCHANGED fnVars
    /\ UNCHANGED mainVars

(* ---------------------------------------------------------------------- *)
(* Shutdown: the end of mainLoop, then cleanup                            *)
(* ---------------------------------------------------------------------- *)
MainLoopDeviceWaitIdle ==
    /\ pc = "main_idle"
    /\ DeviceWaitIdleReturns
    /\ pc' = "cleanup"
    /\ UNCHANGED <<ret, framebuffer_resized, width, height, hostLocals>>
    /\ UNCHANGED <<winVars, devVars, resVars, histVars>>
    /\ UNCHANGED fnVars
    /\ UNCHANGED mainVars

\* cleanup: cleanup_swap_chain, then every other resource
Cleanup ==
    /\ pc = "cleanup"
    /\ Destroy(CleanupSwapChainHandles \cup persistent_, "done")
    /\ UNCHANGED <<ret, framebuffer_resized, width, height, hostLocals>>
    /\ UNCHANGED <<winVars, devVars, histVars>>
    /\ UNCHANGED <<gen, swap_chain_, swap_chain_images_, swap_chain_image_views_,
                   swap_chain_framebuffers_, resFields, depthFields>>
    /\ UNCHANGED fnVars
    /\ UNCHANGED mainVars

(* ---------------------------------------------------------------------- *)
(* main: run() returns or throws                                          *)
(* ---------------------------------------------------------------------- *)
\* what() of some of the errors init_vulkan's steps throw
InitVulkanErrors ==
    {"failed to create instance!", "failed to find a suitable GPU!",
     "failed to create swap chain!", "failed to open file!",
     "failed to load texture image!", "failed to create sync objects"}

\* one of init_vulkan's steps throws; what the earlier steps have created
\* is never destroyed
InitVulkanThrows ==
    /\ pc = "init_vulkan"
    /\ \E what \in InitVulkanErrors : exception' = what
    /\ pc' = "failed"
    /\ UNCHANGED <<ret, framebuffer_resized, width, height, hostLocals>>
    /\ UNCHANGED <<winVars, devVars, resVars, histVars>>
    /\ UNCHANGED <<exit_status, error_stream>>
    /\ UNCHANGED fnVars

\* (variant: main returns EXIT_SUCCESS from its catch block too)
MainResult_AlwaysSuccess(caught) == EXIT_SUCCESS

\* the value main returns: EXIT_FAILURE from the catch block, EXIT_SUCCESS
\* after it
MainResult(caught) == IF caught THEN EXIT_FAILURE ELSE EXIT_SUCCESS

\* run() has returned: main leaves the try block and returns
MainReturns ==
    /\ pc = "done"
    /\ exit_status = Running
    /\ exit_status' = <<MainResult(FALSE)>>
    /\ UNCHANGED <<hostVars, winVars, devVars, resVars, histVars>>
    /\ UNCHANGED <<exception, error_stream>>
    /\ UNCHANGED fnVars

\* an exception has left run(): catch (std::exception const& e) writes
\* e.what() to std::cerr and returns
MainCatches ==
    /\ pc = "failed"
    /\ exit_status = Running
    /\ error_stream' = Append(error_stream, exception)
    /\ exit_status' = <<MainResult(TRUE)>>
    /\ UNCHANGED <<hostVars, winVars, devVars, resVars, histVars>>
    /\ UNCHANGED exception
    /\ UNCHANGED fnVars

(* ---------------------------------------------------------------------- *)
(* The device                                                             *)
(* ---------------------------------------------------------------------- *)
DeviceRuns == ~device_lost /\ pc \notin {"done", "failed", "crashed"}

\* a submission whose framebuffer or one of its attachments has been destroyed
UsesDestroyed(submission) ==
    ~(RangeOf(submission.commands.attachments) \cup {submission.commands.framebuffer}
        \subseteq live)

\* The oldest submission executes: its wait semaphore is signaled, the wait
\* unsignals it, the color-attachment-output stage runs, and on completion
\* the signal semaphore and the fence become signaled.  Submissions of one
\* queue execute in submission order.
\* Rendering to a framebuffer whose attachment has been destroyed is
\* undefined behaviour: it may go unnoticed, or the device may be lost (all
\* outstanding work is abandoned).  Signaling a binary semaphore that is
\* still signaled is undefined behaviour too; the semaphore stays signaled.
SubmissionExecute ==
    /\ DeviceRuns
    /\ graphics_queue # <<>>
    /\ LET sub == Head(graphics_queue)
       IN  /\ semaphores[sub.wait].state = "signaled"
           /\ device_lost' \in (IF UsesDestroyed(sub) THEN BOOLEAN ELSE {FALSE})
           /\ IF device_lost'
              THEN /\ graphics_queue' = <<>>
                   /\ present_queue' = <<>>
                   /\ UNCHANGED <<semaphores, in_flight_fences_>>
              ELSE /\ semaphores' = [semaphores EXCEPT
                          ![sub.wait] = [state |-> "unsignaled", frame |-> @.frame],
                          ![sub.signal] = [state |-> "signaled", frame |-> sub.frame]]
                   /\ in_flight_fences_' = [in_flight_fences_ EXCEPT ![sub.fence] = TRUE]
                   /\ graphics_queue' = Tail(graphics_queue)
                   /\ UNCHANGED present_queue
    /\ UNCHANGED <<hostVars, winVars, resVars, histVars>>
    /\ UNCHANGED fnVars
    /\ UNCHANGED mainVars

\* the oldest present request is processed once its wait semaphore is
\* signaled; present requests are processed in issue order
PresentExecute ==
    /\ DeviceRuns
    /\ present_queue # <<>>
    /\ LET req == Head(present_queue)
       IN  /\ semaphores[req.wait].state = "signaled"
           /\ semaphores' = [semaphores EXCEPT ![req.wait].state = "unsignaled"]
           /\ present_queue' = Tail(present_queue)
    /\ UNCHANGED <<in_flight_fences_, graphics_queue, device_lost>>
    /\ UNCHANGED <<hostVars, winVars, resVars, histVars>>
    /\ UNCHANGED fnVars
    /\ UNCHANGED mainVars

(* ---------------------------------------------------------------------- *)
(* Specifications                                                         *)
(* ---------------------------------------------------------------------- *)
HostNext ==
    \/ InitVulkan
    \/ InitVulkanThrows
    \/ MainLoopTest
    \/ PollEvents
    \/ WaitForFences
    \/ AcquireNextImage
    \/ ResetFences
    \/ RecordCommandBuffer
    \/ UpdateUniformBuffer
    \/ QueueSubmit
    \/ QueuePresent
    \/ AdvanceFrame
    \/ RecreateCall
    \/ RecreateEnter
    \/ RecreateQuerySize
    \/ RecreateWaitEvents
    \/ RecreateDeviceWaitIdle
    \/ RecreateCleanupSwapChain
    \/ RecreateCreateSwapChain
    \/ RecreateCreateImageViews
    \/ RecreateCreateDepthResources
    \/ RecreateCreateFramebuffers
    \/ MainLoopDeviceWaitIdle
    \/ Cleanup
    \/ MainReturns
    \/ MainCatches

DeviceNext ==
    \/ SubmissionExecute
    \/ PresentExecute

WindowNext ==
    \/ WindowResize
    \/ WindowInput
    \/ WindowClose

Next == HostNext \/ DeviceNext \/ WindowNext

Spec == Init /\ [][Next]_vars

\* The host thread runs whenever it is not blocked, and the device makes
\* progress on the work it has been given.  Nothing is assumed of the
\* window system: the user may never touch the window again.
FairSpec == Spec /\ WF_vars(HostNext) /\ WF_vars(DeviceNext)

(* ---------------------------------------------------------------------- *)
(* Properties                                                             *)
(* ---------------------------------------------------------------------- *)
RecreatePcs ==
    {"rc_call", "rc_enter", "rc_query", "rc_wait", "rc_idle", "rc_cleanup",
     "rc_create_swap_chain", "rc_create_image_views", "rc_create_depth",
     "rc_create_framebuffers"}

FrameLoopPcs ==
    {"loop_test", "poll", "wait_fence", "acquire", "reset_fence", "record",
     "update_ubo", "submit", "present", "advance", "main_idle", "cleanup"}

StaleResults == {VK_ERROR_OUT_OF_DATE_KHR, VK_SUBOPTIMAL_KHR}

\* C1: draw_frame resets and re-records the current slot's command buffer
\* only when no earlier submission of that command buffer is still pending
\* on the device.
C1_RecordOnlyWhenNotPending ==
    pc = "record" => ~PendingOnSlot(current_frame_)

\* a slot that has been recorded before is recorded again while the other
\* slot's submission is still pending
C1_Witness ==
    /\ pc = "record"
    /\ command_buffers_[current_frame_].framebuffer # NullHandle
    /\ graphics_queue # <<>>

\* C2: the number of frames submitted to the graphics queue whose in-flight
\* fence has not signaled never exceeds max_frames_in_flight.
C2_AtMostNInFlight ==
    Cardinality({graphics_queue[i].frame : i \in 1 .. Len(graphics_queue)})
        <= max_frames_in_flight

\* max_frames_in_flight frames are in flight and the host is blocked on the
\* fence of the slot it wants to reuse
C2_Witness ==
    /\ Len(graphics_queue) = max_frames_in_flight
    /\ pc = "wait_fence"
    /\ ~in_flight_fences_[current_frame_]

\* C3: after recreate_swap_chain has returned, every framebuffer references
\* only attachments that are live.
C3_FramebuffersReferenceLiveAttachments ==
    (gen > 1 /\ pc \in FrameLoopPcs) =>
        \A i \in 1 .. Len(swap_chain_framebuffers_) :
            RangeOf(swap_chain_framebuffers_[i].attachments) \subseteq live

\* C4: draw_frame calls recreate_swap_chain only if the acquire reported
\* out-of-date, or the present reported out-of-date or suboptimal, or the
\* resize flag was set when polled; a frame whose acquire and present both
\* report success with the flag clear performs no recreation.
C4_NoSpuriousRecreation ==
    /\ pc = "rc_call" =>
          \/ acquire_result = VK_ERROR_OUT_OF_DATE_KHR
          \/ present_result \in StaleResults
          \/ resize_seen
    /\ (/\ pc = "advance"
        /\ acquire_result = VK_SUCCESS
        /\ present_result = VK_SUCCESS
        /\ ~resize_seen) => ~recreated

\* a recreation whose only reason is the resize flag
C4_Witness ==
    /\ pc = "rc_call"
    /\ recreated
    /\ resize_seen
    /\ acquire_result = VK_SUCCESS
    /\ present_result = VK_SUCCESS

\* C5 as stated: whenever the acquire or the present of a frame reports
\* out-of-date or suboptimal, that draw_frame call triggers a recreation.
C5_StaleResultAlwaysRecreates ==
    pc = "advance" =>
        ((acquire_result \in StaleResults \/ present_result \in StaleResults)
            => recreated)

\* C5 amended: whenever the acquire reports out-of-date, or the present
\* reports out-of-date or suboptimal, that draw_frame call triggers a
\* recreation (a suboptimal acquire alone does not).
C5_OutOfDateOrStalePresentRecreates ==
    /\ acquire_result = VK_ERROR_OUT_OF_DATE_KHR => (pc = "rc_call" /\ recreated)
    /\ present_result \in StaleResults => (pc = "rc_call" /\ recreated)

\* a suboptimal present, with the resize flag clear, has triggered a recreation
C5_Witness ==
    /\ pc = "rc_call"
    /\ present_result = VK_SUBOPTIMAL_KHR
    /\ ~resize_seen
    /\ recreated

\* C6: recreate_swap_chain destroys the swapchain-dependent resources only
\* when the device is idle: no submission and no present request is pending.
C6_TeardownOnlyWhenIdle ==
    pc = "rc_cleanup" => (graphics_queue = <<>> /\ present_queue = <<>>)

\* the teardown of a recreation that the present of a submitted frame triggered
C6_Witness ==
    /\ pc = "rc_cleanup"
    /\ ret = "advance"
    /\ command_buffers_[current_frame_].framebuffer # NullHandle

\* C7: on a clean shutdown cleanup runs only after the device has gone idle
\* after the last submitted frame, and nothing is submitted between that
\* wait and the destruction.
C7_CleanupOnlyWhenIdle ==
    pc \in {"cleanup", "done"} => (graphics_queue = <<>> /\ present_queue = <<>>)

\* a clean shutdown after at least one frame has been submitted
C7_Witness ==
    /\ pc = "done"
    /\ \E s \in Slots : command_buffers_[s].framebuffer # NullHandle
    /\ ~device_lost

InWaitLoop == pc \in {"rc_query", "rc_wait"}

FramebufferNonzero == fb_size[1] # 0 /\ fb_size[2] # 0

\* C8: recreate_swap_chain does not leave its wait loop while the window's
\* framebuffer has zero width or zero height.
C8_LeavesWaitLoopOnlyWhenNonzero ==
    pc = "rc_idle" => FramebufferNonzero

\* C9: if recreate_swap_chain is in its wait loop and the framebuffer size is
\* nonzero and stays nonzero, recreate_swap_chain eventually leaves the loop,
\* with no window event assumed after the size change.
C9_EventuallyLeavesWaitLoop ==
    (InWaitLoop /\ FramebufferNonzero) ~> (~InWaitLoop \/ ~FramebufferNonzero)

\* C10: for every submitted frame the submission's color-attachment output
\* runs only on the image-available signal of that frame's acquire, and the
\* frame's image is presented only after its submission has completed and
\* signaled render-finished.
C10_PresentAfterRenderFinished ==
    /\ (/\ DeviceRuns
        /\ graphics_queue # <<>>
        /\ semaphores[Head(graphics_queue).wait].state = "signaled")
           => semaphores[Head(graphics_queue).wait].frame = Head(graphics_queue).frame
    /\ (/\ DeviceRuns
        /\ present_queue # <<>>
        /\ semaphores[Head(present_queue).wait].state = "signaled")
           => \A i \in 1 .. Len(graphics_queue) :
                  graphics_queue[i].frame # Head(present_queue).frame

\* draw_frame has left through the return after an out-of-date acquire and
\* recreate_swap_chain has not returned yet
InAcquireAbort == pc \in RecreatePcs /\ ret = "loop_test"

\* C11: when the acquire reports out-of-date, draw_frame calls
\* recreate_swap_chain and returns; from the acquire to that return the
\* slot's fence stays signaled (it is not reset), the command buffers are
\* not reset or recorded, nothing is submitted or presented, and
\* current_frame_ does not change.
C11_OutOfDateAcquireAbortsFrame ==
    [][/\ (pc = "acquire" /\ acquire_result' = VK_ERROR_OUT_OF_DATE_KHR)
             => (pc' = "rc_call" /\ ret' = "loop_test")
       /\ ((pc = "acquire" /\ acquire_result' = VK_ERROR_OUT_OF_DATE_KHR)
              \/ InAcquireAbort)
             => /\ in_flight_fences_[current_frame_]
                /\ in_flight_fences_'[current_frame_]
                /\ command_buffers_' = command_buffers_
                /\ Len(graphics_queue') <= Len(graphics_queue)
                /\ Len(present_queue') <= Len(present_queue)
                /\ current_frame_' = current_frame_
                /\ pc' \in RecreatePcs \cup {"loop_test", "failed", "crashed"}]_vars

\* recreate_swap_chain is about to return to mainLoop after an out-of-date
\* acquire in a frame that follows a submitted one
C11_Witness ==
    /\ pc = "rc_create_framebuffers"
    /\ ret = "loop_test"
    /\ in_flight_fences_[current_frame_]
    /\ \E s \in Slots : command_buffers_[s].framebuffer # NullHandle

\* the host has arrived at position `to` in this step
HostArrives(to) == pc # to /\ pc' = to

\* C12: within a draw_frame call the steps happen in the order fence wait,
\* acquire, fence reset, command-buffer record, submit, present.  Nothing is
\* submitted without a successful acquire and a completed recording earlier
\* in the same call, nothing is presented without a submit earlier in the
\* same call, and no step of the frame is pending when the call returns.
C12_FrameStepsInOrder ==
    [][/\ HostArrives("acquire") => pc = "wait_fence"
       /\ HostArrives("reset_fence") =>
             /\ pc = "acquire"
             /\ acquire_result' \in {VK_SUCCESS, VK_SUBOPTIMAL_KHR}
             /\ semaphores'[image_available_semaphores_(current_frame_)] =
                    [state |-> "signaled", frame |-> frame_count]
       /\ HostArrives("record") =>
             /\ pc = "reset_fence"
             /\ ~in_flight_fences_'[current_frame_]
       /\ HostArrives("update_ubo") =>
             /\ pc = "record"
             /\ command_buffers_'[current_frame_] = RecordedCommands(image_index)
       /\ HostArrives("submit") => pc = "update_ubo"
       /\ Len(graphics_queue') > Len(graphics_queue) =>
             /\ pc = "submit"
             /\ acquire_result \in {VK_SUCCESS, VK_SUBOPTIMAL_KHR}
             /\ command_buffers_[current_frame_] = RecordedCommands(image_index)
             /\ graphics_queue'[Len(graphics_queue')].commands =
                    RecordedCommands(image_index)
       /\ HostArrives("present") =>
             /\ pc = "submit"
             /\ Len(graphics_queue') = Len(graphics_queue) + 1
             /\ graphics_queue'[Len(graphics_queue')].frame = frame_count
       /\ Len(present_queue') > Len(present_queue) => pc = "present"
       /\ HostArrives("advance") =>
             pc = "present" \/ (pc = "rc_create_framebuffers" /\ ret = "advance")
       /\ HostArrives("loop_test") =>
             /\ acquire_result' = NoResult
             /\ present_result' = NoResult
             /\ ret' = "none"
             /\ ~recreated']_vars

\* a frame that went through every step has presented and is about to return
C12_Witness ==
    /\ pc = "advance"
    /\ present_result = VK_SUCCESS
    /\ acquire_result = VK_SUCCESS
    /\ frame_count = 2
    /\ command_buffers_[current_frame_] = RecordedCommands(image_index)

\* the current draw_frame call has called vkQueuePresentKHR and has not yet
\* advanced current_frame_
PresentedNotAdvanced ==
    pc = "advance" \/ (pc \in RecreatePcs /\ ret = "advance")

\* C13: current_frame_ is always a slot index; it equals the number of
\* frames that have reached presentation modulo max_frames_in_flight, the
\* frame that has presented and is about to advance being counted once it
\* has advanced; this includes frames whose present triggers a recreation.
C13_CurrentFrameCountsPresentedFrames ==
    /\ current_frame_ \in Slots
    /\ pc \notin {"failed", "crashed"} =>
          current_frame_ =
             (IF PresentedNotAdvanced THEN presented - 1 ELSE presented)
                 % max_frames_in_flight

\* two frames have reached presentation, the second one through a
\* recreation, after one frame was aborted at the acquire
C13_Witness ==
    /\ pc = "loop_test"
    /\ presented = 2
    /\ frame_count = 3
    /\ gen > 1
    /\ current_frame_ = 0

\* create_descriptor_sets: descriptor set i refers to uniform_buffers_[i];
\* the uniform buffer that a recorded command buffer reads is the one of the
\* descriptor set it binds
UniformBufferRead(commands) == commands.descriptor_set

\* update_uniform_buffer(current_image) writes uniform_buffers_mapped_[current_image];
\* draw_frame passes current_frame_
UniformBufferWritten == current_frame_

\* C14: the host writes a slot's uniform buffer only while no submitted and
\* unfinished command buffer reads that buffer, and every submitted command
\* buffer reads the uniform buffer of its own slot only.
C14_UniformBufferExclusive ==
    /\ pc = "update_ubo" =>
          \A i \in 1 .. Len(graphics_queue) :
              UniformBufferRead(graphics_queue[i].commands) # UniformBufferWritten
    /\ \A i \in 1 .. Len(graphics_queue) :
          UniformBufferRead(graphics_queue[i].commands) = graphics_queue[i].command_buffer

\* the host writes the uniform buffer of a slot it uses for the second time
\* while the other slot's submission is still pending
C14_Witness ==
    /\ pc = "update_ubo"
    /\ presented = 2
    /\ graphics_queue # <<>>
    /\ UniformBufferRead(graphics_queue[1].commands) # UniformBufferWritten

\* C15: whenever draw_frame starts a swapchain recreation in a frame that
\* began with framebuffer_resized set, the flag has been cleared by the time
\* recreate_swap_chain is called.  (The flag changes only where events are
\* processed, so at the call it is set only if the frame began with it set.)
C15_FlagClearedWhenRecreationStarts ==
    pc = "rc_call" => ~framebuffer_resized

\* positions of a frame before the swapchain has been rebuilt in it
PreRebuildPcs ==
    {"wait_fence", "acquire", "reset_fence", "record", "update_ubo", "submit",
     "present", "rc_call", "rc_enter", "rc_query", "rc_wait", "rc_idle",
     "rc_cleanup", "rc_create_swap_chain"}

\* framebuffer_resize_callback has set the flag and the main loop has a
\* frame in which to see it: the current one, or one it will still run
ResizeNotificationPending ==
    /\ framebuffer_resized
    /\ pc \in PreRebuildPcs \/ frame_count < MaxFrames

\* create_swap_chain has just built a new swapchain
SwapChainRebuilt == pc = "rc_create_image_views"

\* the main loop has stopped running frames: the window is closing or the
\* program has ended with an error
MainLoopEnded ==
    should_close \/ pc \in {"main_idle", "cleanup", "done", "failed", "crashed"}

\* the host is inside a call or loop that waits: for a fence, for window
\* events in the wait loop of recreate_swap_chain, or for the device to go
\* idle
HostWaits == pc \in {"wait_fence", "rc_query", "rc_wait", "rc_idle"}

\* C16: a resize notification is never lost.  If framebuffer_resize_callback
\* has set the flag, in glfwPollEvents or in the glfwWaitEvents of
\* recreate_swap_chain, then the swapchain is eventually rebuilt, unless the
\* main loop stops running frames (it ends, or the host never comes back from
\* a wait).
C16_ResizeNotificationNeverLost ==
    \/ <>[]HostWaits
    \/ (ResizeNotificationPending ~> (SwapChainRebuilt \/ MainLoopEnded))

\* a rebuild that follows a notification delivered inside the wait loop of a
\* recreation the present had triggered
C16_Witness ==
    /\ SwapChainRebuilt
    /\ framebuffer_resized
    /\ ret = "advance"

\* the user has asked to close the window: the close event is queued or the
\* window's close flag is already set
CloseRequested == should_close \/ "close" \in events

\* run has returned after cleanup and main returns EXIT_SUCCESS
ExitedWithSuccess == pc = "done"

\* an exception has left run (main returns EXIT_FAILURE) or the process has
\* crashed
FatalError == pc \in {"failed", "crashed"}

\* C17: once the window close request has been made, and unless a fatal
\* error occurs, the application eventually leaves the main loop, waits for
\* the device to go idle, runs cleanup and exits with success, also when the
\* close is requested while recreate_swap_chain waits on a minimized window.
C17_CloseLeadsToCleanExit ==
    CloseRequested ~> (ExitedWithSuccess \/ FatalError)

(* ---------------------------------------------------------------------- *)
(* find_memory_type                                                       *)
(* ---------------------------------------------------------------------- *)
\* memory types a device reports at most (VK_MAX_MEMORY_TYPES in Vulkan)
MaxMemoryTypes == 3

\* the VkMemoryPropertyFlags bits followed: DEVICE_LOCAL (bit 0) and
\* HOST_VISIBLE (bit 1)
PropertyBits == {0, 1}

\* the values VkMemoryPropertyFlags takes with these bits
PropertyFlags == 0 .. 3

RECURSIVE BitAnd(_, _)
\* a & b on unsigned integers
BitAnd(a, b) ==
    IF a = 0 \/ b = 0 THEN 0
    ELSE (a % 2) * (b % 2) + 2 * BitAnd(a \div 2, b \div 2)

\* 1 << i
ShiftLeftOne(i) == 2 ^ i

\* (variant: the type filter is not looked at)
MemoryTypeMatches_IgnoreFilter(type_filter, properties, propertyFlags, i) ==
    BitAnd(propertyFlags, properties) = properties

\* the condition of the if inside the loop of find_memory_type
MemoryTypeMatches(type_filter, properties, propertyFlags, i) ==
    /\ BitAnd(type_filter, ShiftLeftOne(i)) # 0
    /\ BitAnd(propertyFlags, properties) = properties

\* what vkGetPhysicalDeviceMemoryProperties can report: a count and the
\* propertyFlags of the memory types 0 .. memoryTypeCount - 1
PhysicalDeviceMemoryProperties ==
    UNION {[memoryTypeCount : {n}, memoryTypes : [0 .. (n - 1) -> PropertyFlags]] :
              n \in 0 .. MaxMemoryTypes}

\* find_memory_type is called: any type filter, any requested flags, any
\* device
FindMemoryTypeInit ==
    /\ LoopInit
    /\ find_queue_families_call = NotCalled
    /\ staged_upload_call = NotCalled
    /\ init_vulkan_call = NotCalled
    /\ choose_swap_extent_call = NotCalled
    /\ max_usable_sample_count_call = NotCalled
    /\ load_model_call = NotCalled
    /\ texture_image_call = NotCalled
    /\ transition_image_layout_call = NotCalled
    /\ read_file_call = NotCalled
    /\ create_swap_chain_call = NotCalled
    /\ \E type_filter \in 0 .. (2 ^ MaxMemoryTypes - 1),
          properties \in PropertyFlags,
          memory_properties \in PhysicalDeviceMemoryProperties :
         find_memory_type_call =
             [at |-> "loop", type_filter |-> type_filter,
              properties |-> properties,
              memory_properties |-> memory_properties, i |-> 0]

\* one pass through the for loop: the loop test, then the if
FindMemoryTypeIteration ==
    LET c == find_memory_type_call
    IN  /\ c.at = "loop"
        /\ c.i < c.memory_properties.memoryTypeCount
        /\ IF MemoryTypeMatches(c.type_filter, c.properties,
                                c.memory_properties.memoryTypes[c.i], c.i)
           THEN find_memory_type_call' = [c EXCEPT !.at = "returned"]
           ELSE find_memory_type_call' = [c EXCEPT !.i = c.i + 1]
        /\ UNCHANGED <<loopVars, load_model_call, texture_image_call,
                     transition_image_layout_call, read_file_call,
                     create_swap_chain_call,
                   find_queue_families_call, staged_upload_call,
                   init_vulkan_call, choose_swap_extent_call,
                   max_usable_sample_count_call>>

\* the loop ends without a return: the function throws
FindMemoryTypeThrow ==
    LET c == find_memory_type_call
    IN  /\ c.at = "loop"
        /\ ~(c.i < c.memory_properties.memoryTypeCount)
        /\ find_memory_type_call' = [c EXCEPT !.at = "thrown"]
        /\ UNCHANGED <<loopVars, load_model_call, texture_image_call,
                     transition_image_layout_call, read_file_call,
                     create_swap_chain_call,
                   find_queue_families_call, staged_upload_call,
                   init_vulkan_call, choose_swap_extent_call,
                   max_usable_sample_count_call>>

FindMemoryTypeNext == FindMemoryTypeIteration \/ FindMemoryTypeThrow

FindMemoryTypeSpec == FindMemoryTypeInit /\ [][FindMemoryTypeNext]_vars

\* bit b of the unsigned integer x is set
BitSet(x, b) == (x \div (2 ^ b)) % 2 = 1

\* memory type j is allowed by the filter and has every requested flag
SuitableMemoryType(c, j) ==
    /\ BitSet(c.type_filter, j)
    /\ \A b \in PropertyBits :
          BitSet(c.properties, b) => BitSet(c.memory_properties.memoryTypes[j], b)

\* C18: find_memory_type returns the lowest index below the memory type
\* count whose bit is set in the type filter and whose flags include every
\* requested flag, and it throws exactly when there is no such index.
C18_FindMemoryTypeLowestSuitable ==
    LET c == find_memory_type_call
    IN  /\ c.at = "returned" =>
              /\ c.i < c.memory_properties.memoryTypeCount
              /\ SuitableMemoryType(c, c.i)
              /\ \A j \in 0 .. (c.i - 1) : ~SuitableMemoryType(c, j)
        /\ c.at = "thrown" =>
              \A j \in 0 .. (c.memory_properties.memoryTypeCount - 1) :
                  ~SuitableMemoryType(c, j)

\* the function has returned the last memory type although an earlier one
\* was allowed by the filter (it lacked a requested flag)
C18_Witness ==
    LET c == find_memory_type_call
    IN  /\ c.at = "returned"
        /\ c.i = MaxMemoryTypes - 1
        /\ BitSet(c.type_filter, 0)
        /\ c.properties = 3

(* ---------------------------------------------------------------------- *)
(* load_model and std::hash<vertex>                                       *)
(* ---------------------------------------------------------------------- *)
\* index entries (vertex references) of the model file, at most
MaxRefs == 3

\* coordinate values that occur in the model file
Floats == {0, 1}

\* attrib.vertices: two positions, three coordinates each; the positions
\* are equal or differ in their second or third coordinate
AttribVertices == {v \in [1 .. 6 -> Floats] : v[1] = 0 /\ v[2] = 0 /\ v[4] = 0}

\* attrib.texcoords: one texture coordinate, two components
AttribTexCoords == [1 .. 2 -> Floats]

\* index.vertex_index
VertexIndices == {0, 1}

\* index.texcoord_index; tinyobj gives -1 to a reference that has no
\* texture coordinate
TexCoordIndices == {-1, 0}

\* the mesh indices of all shapes, in the order the two nested loops visit
\* them
MeshIndices ==
    UNION {[1 .. n -> [vertex_index : VertexIndices,
                       texcoord_index : TexCoordIndices]] : n \in 0 .. MaxRefs}

\* width of size_t in the model
HashBits == 8

RECURSIVE BitXor(_, _)
\* a ^ b on unsigned integers
BitXor(a, b) ==
    IF a = 0 THEN b
    ELSE IF b = 0 THEN a
    ELSE ((a + b) % 2) + 2 * BitXor(a \div 2, b \div 2)

\* x << 1 and x >> 1 on size_t
ShiftLeft1(x) == (2 * x) % (2 ^ HashBits)

ShiftRight1(x) == x \div 2

RECURSIVE HashComponents(_)
\* glm's hash of a vector: a function of its components, in order
HashComponents(v) ==
    IF v = <<>> THEN 0
    ELSE (31 * HashComponents(Tail(v)) + Head(v) + 1) % (2 ^ HashBits)

\* std::hash<vertex>::operator()
HashVertex(vert) ==
    BitXor(ShiftRight1(BitXor(HashComponents(vert.pos),
                              ShiftLeft1(HashComponents(vert.color)))),
           ShiftLeft1(HashComponents(vert.tex_coord)))

\* operator== of vertex (defaulted): member by member
VertexEquals(a, b) ==
    a.pos = b.pos /\ a.color = b.color /\ a.tex_coord = b.tex_coord

\* (variant: the map never finds a key)
Find_Never(unique_vertices, vert) == {}

\* the entries std::unordered_map finds for a key: those in the key's bucket
\* that compare equal to it
Find(unique_vertices, vert) ==
    {e \in unique_vertices :
        HashVertex(e.key) = HashVertex(vert) /\ VertexEquals(e.key, vert)}

\* (variant: the index given to a new vertex is one too large)
NewVertexIndex_OffByOne(vertices) == Len(vertices) + 1

\* static_cast<uint32_t>(vertices_.size())
NewVertexIndex(vertices) == Len(vertices)

\* the texture coordinates the loop body reads for a reference.  With
\* texcoord_index -1 the reads are before the start of attrib.texcoords:
\* any values may come back.
TexCoordsRead(attrib, index) ==
    IF index.texcoord_index >= 0
    THEN {<<attrib.texcoords[2 * index.texcoord_index + 0 + 1],
            attrib.texcoords[2 * index.texcoord_index + 1 + 1]>>}
    ELSE Floats \X Floats

\* the vertex the loop body builds from a reference and the coordinates read
VertexFor(attrib, index, texcoord) ==
    [pos |-> <<attrib.vertices[3 * index.vertex_index + 0 + 1],
               attrib.vertices[3 * index.vertex_index + 1 + 1],
               attrib.vertices[3 * index.vertex_index + 2 + 1]>>,
     tex_coord |-> <<texcoord[1], 1 - texcoord[2]>>,
     color |-> <<1, 1, 1>>]

\* load_model is called after tinyobj::LoadObj has succeeded: vertices_,
\* indices_ and unique_vertices are empty
LoadModelInit ==
    /\ LoopInit
    /\ find_queue_families_call = NotCalled
    /\ staged_upload_call = NotCalled
    /\ init_vulkan_call = NotCalled
    /\ choose_swap_extent_call = NotCalled
    /\ max_usable_sample_count_call = NotCalled
    /\ find_memory_type_call = NotCalled
    /\ texture_image_call = NotCalled
    /\ transition_image_layout_call = NotCalled
    /\ read_file_call = NotCalled
    /\ create_swap_chain_call = NotCalled
    /\ \E vertices \in AttribVertices, texcoords \in AttribTexCoords,
          mesh_indices \in MeshIndices :
         load_model_call =
             [at |-> "loop",
              attrib |-> [vertices |-> vertices, texcoords |-> texcoords],
              mesh_indices |-> mesh_indices,
              next |-> 1,
              built |-> <<>>,
              unique_vertices |-> {},
              vertices_ |-> <<>>,
              indices_ |-> <<>>]

\* one pass through the body of the inner loop
LoadModelIteration ==
    LET c == load_model_call
    IN  /\ c.at = "loop"
        /\ c.next <= Len(c.mesh_indices)
        /\ \E texcoord \in TexCoordsRead(c.attrib, c.mesh_indices[c.next]) :
             LET vert == VertexFor(c.attrib, c.mesh_indices[c.next], texcoord)
                 found == Find(c.unique_vertices, vert)
                 inserted == found = {}
                 it == IF inserted
                       THEN [key |-> vert, value |-> NewVertexIndex(c.vertices_)]
                       ELSE CHOOSE e \in found : TRUE
             IN  load_model_call' =
                     [c EXCEPT !.next = c.next + 1,
                               !.built = Append(c.built, vert),
                               !.unique_vertices =
                                   IF inserted THEN c.unique_vertices \cup {it}
                                   ELSE c.unique_vertices,
                               !.vertices_ =
                                   IF inserted THEN Append(c.vertices_, vert)
                                   ELSE c.vertices_,
                               !.indices_ = Append(c.indices_, it.value)]
        /\ UNCHANGED <<loopVars, find_memory_type_call, texture_image_call,
                     transition_image_layout_call, read_file_call,
                     create_swap_chain_call,
                   find_queue_families_call, staged_upload_call,
                   init_vulkan_call, choose_swap_extent_call,
                   max_usable_sample_count_call>>

\* both loops have ended
LoadModelReturn ==
    LET c == load_model_call
    IN  /\ c.at = "loop"
        /\ c.next > Len(c.mesh_indices)
        /\ load_model_call' = [c EXCEPT !.at = "returned"]
        /\ UNCHANGED <<loopVars, find_memory_type_call, texture_image_call,
                     transition_image_layout_call, read_file_call,
                     create_swap_chain_call,
                   find_queue_families_call, staged_upload_call,
                   init_vulkan_call, choose_swap_extent_call,
                   max_usable_sample_count_call>>

LoadModelNext == LoadModelIteration \/ LoadModelReturn

LoadModelSpec == LoadModelInit /\ [][LoadModelNext]_vars

\* load_model is running or has returned
LoadModelCalled == load_model_call.at \in {"loop", "returned"}

\* position in the vertex list (from 0) of the first vertex equal to vert
FirstOccurrence(vertices, vert) ==
    CHOOSE k \in 0 .. (Len(vertices) - 1) :
        /\ VertexEquals(vertices[k + 1], vert)
        /\ \A j \in 0 .. (k - 1) : ~VertexEquals(vertices[j + 1], vert)

\* C19: a vertex equal to one already in the vertex list does not grow the
\* list, the index appended for every reference is the index of the first
\* occurrence of its vertex, and the list never holds two equal vertices.
C19_VertexDeduplication ==
    LoadModelCalled =>
        LET c == load_model_call
        IN  /\ \A i, j \in 1 .. Len(c.vertices_) :
                  VertexEquals(c.vertices_[i], c.vertices_[j]) => i = j
            /\ Len(c.vertices_) = Cardinality({c.built[p] : p \in 1 .. Len(c.built)})
            /\ \A p \in 1 .. Len(c.built) :
                  /\ \E k \in 1 .. Len(c.vertices_) :
                         VertexEquals(c.vertices_[k], c.built[p])
                  /\ c.indices_[p] = FirstOccurrence(c.vertices_, c.built[p])

\* three references, the third to a vertex equal to the first: two vertices
\* in the list and the index of the first appended last
C19_Witness ==
    /\ LoadModelCalled
    /\ load_model_call.indices_ = <<0, 1, 0>>
    /\ Len(load_model_call.vertices_) = 2

\* C20: after every step of load_model every element of the index list is
\* less than the length of the vertex list, and the index list has one entry
\* for every vertex reference processed so far.
C20_IndicesWithinVertexList ==
    LoadModelCalled =>
        LET c == load_model_call
        IN  /\ \A p \in 1 .. Len(c.indices_) :
                  c.indices_[p] >= 0 /\ c.indices_[p] < Len(c.vertices_)
            /\ Len(c.indices_) = c.next - 1

\* every reference has added a new vertex
C20_Witness ==
    /\ LoadModelCalled
    /\ load_model_call.at = "returned"
    /\ load_model_call.indices_ = <<0, 1, 2>>

(* ---------------------------------------------------------------------- *)
(* create_texture_image and generate_mipmaps                              *)
(* ---------------------------------------------------------------------- *)
\* the textures followed are up to MaxTextureDim texels a side, or 256 or
\* 512 texels a side
MaxTextureDim == 9

TextureDims == (1 .. MaxTextureDim) \cup {256, 512}

\* (variant: the smaller dimension decides the number of levels)
StdMax_Min(a, b) == IF a < b THEN a ELSE b

\* std::max
StdMax(a, b) == IF a < b THEN b ELSE a

\* std::floor(std::log2(x)) of an integer x >= 1 (exactly representable as
\* a double): the k with 2^k <= x < 2^(k+1)
FloorLog2(x) == CHOOSE k \in 0 .. 31 : 2 ^ k <= x /\ x < 2 ^ (k + 1)

\* create_texture_image: the value assigned to mip_levels_
MipLevels(tex_width, tex_height) ==
    FloorLog2(StdMax(tex_width, tex_height)) + 1

\* (variant: the destination extent is halved without the test against 1)
BlitDstExtent_NoClamp(mip_width, mip_height) ==
    <<mip_width \div 2, mip_height \div 2>>

\* generate_mipmaps: blit.dstOffsets[1]
BlitDstExtent(mip_width, mip_height) ==
    <<IF mip_width > 1 THEN mip_width \div 2 ELSE 1,
      IF mip_height > 1 THEN mip_height \div 2 ELSE 1>>

\* generate_mipmaps: if (mip_width > 1) mip_width /= 2, the same for the height
NextMipSize(size) == IF size > 1 THEN size \div 2 ELSE size

\* (variant: the loop's barriers are put on level i, not on level i - 1)
LoopBarrierLevel_Current(i) == i

\* generate_mipmaps: barrier.subresourceRange.baseMipLevel = i - 1
LoopBarrierLevel(i) == i - 1

\* vkCmdPipelineBarrier with one image barrier on one level (levelCount = 1):
\* the level is in the barrier's new layout afterwards.  layouts[l + 1] is
\* the layout of level l.
PipelineBarrier(layouts, barrier) ==
    [layouts EXCEPT ![barrier.baseMipLevel + 1] = barrier.newLayout]

\* create_texture_image is called: stbi_load has decoded any image, or has
\* failed (pixels is null); the device's format supports linear blits or
\* does not
CreateTextureImageInit ==
    /\ LoopInit
    /\ find_queue_families_call = NotCalled
    /\ staged_upload_call = NotCalled
    /\ init_vulkan_call = NotCalled
    /\ choose_swap_extent_call = NotCalled
    /\ max_usable_sample_count_call = NotCalled
    /\ find_memory_type_call = NotCalled
    /\ load_model_call = NotCalled
    /\ transition_image_layout_call = NotCalled
    /\ read_file_call = NotCalled
    /\ create_swap_chain_call = NotCalled
    /\ \E tex_width \in TextureDims, tex_height \in TextureDims,
          pixels \in BOOLEAN, linear_blit \in BOOLEAN :
         texture_image_call =
             [at |-> "create_texture_image", width |-> tex_width,
              height |-> tex_height,
              pixels |-> pixels, linear_blit |-> linear_blit, mip_levels_ |-> 0,
              i |-> 0, mip_width |-> 0, mip_height |-> 0, blits |-> <<>>,
              layouts |-> <<>>, written |-> {}, barriers |-> <<>>]

\* create_texture_image up to its call of generate_mipmaps: the image is
\* created with mip_levels_ levels, transition_image_layout puts all of them
\* in the transfer-destination layout and copy_buffer_to_image writes level 0
CreateTextureImage ==
    /\ texture_image_call.at = "create_texture_image"
    /\ texture_image_call' =
         IF ~texture_image_call.pixels
         THEN [texture_image_call EXCEPT
                 !.mip_levels_ = MipLevels(texture_image_call.width,
                                           texture_image_call.height),
                 !.at = "threw"]
         ELSE [texture_image_call EXCEPT
                 !.mip_levels_ = MipLevels(texture_image_call.width,
                                           texture_image_call.height),
                 !.layouts = [l \in 1 .. MipLevels(texture_image_call.width,
                                                    texture_image_call.height)
                                 |-> "TRANSFER_DST_OPTIMAL"],
                 !.written = {0},
                 !.at = "generate_mipmaps"]
    /\ UNCHANGED <<loopVars, find_memory_type_call, load_model_call,
                   transition_image_layout_call, read_file_call,
                   create_swap_chain_call,
                   find_queue_families_call, staged_upload_call,
                   init_vulkan_call, choose_swap_extent_call,
                   max_usable_sample_count_call>>

\* generate_mipmaps up to the loop: the format test, then the loop variables
GenerateMipmapsEnter ==
    /\ texture_image_call.at = "generate_mipmaps"
    /\ texture_image_call' =
         IF ~texture_image_call.linear_blit
         THEN [texture_image_call EXCEPT !.at = "threw"]
         ELSE [texture_image_call EXCEPT
                 !.at = "loop",
                 !.i = 1,
                 !.mip_width = texture_image_call.width,
                 !.mip_height = texture_image_call.height]
    /\ UNCHANGED <<loopVars, find_memory_type_call, load_model_call,
                   transition_image_layout_call, read_file_call,
                   create_swap_chain_call,
                   find_queue_families_call, staged_upload_call,
                   init_vulkan_call, choose_swap_extent_call,
                   max_usable_sample_count_call>>

\* one iteration of the loop: the barrier that makes level i - 1 a transfer
\* source, the blit from level i - 1 into level i, the barrier that makes
\* level i - 1 shader-read-only.  Each blit is recorded with the layouts its
\* two levels are in when it runs and with whether its source has been
\* written.
GenerateMipmapsIteration ==
    /\ texture_image_call.at = "loop"
    /\ texture_image_call.i # texture_image_call.mip_levels_
    /\ LET i == texture_image_call.i
           to_src == [baseMipLevel |-> LoopBarrierLevel(i),
                      oldLayout |-> "TRANSFER_DST_OPTIMAL",
                      newLayout |-> "TRANSFER_SRC_OPTIMAL",
                      srcAccessMask |-> "TRANSFER_WRITE",
                      dstAccessMask |-> "TRANSFER_READ"]
           to_shader == [baseMipLevel |-> LoopBarrierLevel(i),
                         oldLayout |-> "TRANSFER_SRC_OPTIMAL",
                         newLayout |-> "SHADER_READ_ONLY_OPTIMAL",
                         srcAccessMask |-> "TRANSFER_READ",
                         dstAccessMask |-> "SHADER_READ"]
           at_blit == PipelineBarrier(texture_image_call.layouts, to_src)
       IN  texture_image_call' =
             [texture_image_call EXCEPT
                !.blits = Append(@,
                    [srcLevel |-> i - 1,
                     src |-> <<texture_image_call.mip_width,
                               texture_image_call.mip_height>>,
                     dstLevel |-> i,
                     dst |-> BlitDstExtent(texture_image_call.mip_width,
                                           texture_image_call.mip_height),
                     srcLayout |-> at_blit[i],
                     dstLayout |-> at_blit[i + 1],
                     srcWritten |-> (i - 1) \in texture_image_call.written]),
                !.written = @ \cup {i},
                !.layouts = PipelineBarrier(at_blit, to_shader),
                !.barriers = @ \o <<to_src, to_shader>>,
                !.mip_width = NextMipSize(@),
                !.mip_height = NextMipSize(@),
                !.i = @ + 1]
    /\ UNCHANGED <<loopVars, find_memory_type_call, load_model_call,
                   transition_image_layout_call, read_file_call,
                   create_swap_chain_call,
                   find_queue_families_call, staged_upload_call,
                   init_vulkan_call, choose_swap_extent_call,
                   max_usable_sample_count_call>>

\* the loop ends; the last barrier, and generate_mipmaps returns
GenerateMipmapsReturn ==
    /\ texture_image_call.at = "loop"
    /\ texture_image_call.i = texture_image_call.mip_levels_
    /\ LET last == [baseMipLevel |-> texture_image_call.mip_levels_ - 1,
                    oldLayout |-> "TRANSFER_DST_OPTIMAL",
                    newLayout |-> "SHADER_READ_ONLY_OPTIMAL",
                    srcAccessMask |-> "TRANSFER_WRITE",
                    dstAccessMask |-> "SHADER_READ"]
       IN  texture_image_call' =
             [texture_image_call EXCEPT
                !.layouts = PipelineBarrier(@, last),
                !.barriers = Append(@, last),
                !.at = "returned"]
    /\ UNCHANGED <<loopVars, find_memory_type_call, load_model_call,
                   transition_image_layout_call, read_file_call,
                   create_swap_chain_call,
                   find_queue_families_call, staged_upload_call,
                   init_vulkan_call, choose_swap_extent_call,
                   max_usable_sample_count_call>>

CreateTextureImageNext ==
    \/ CreateTextureImage
    \/ GenerateMipmapsEnter
    \/ GenerateMipmapsIteration
    \/ GenerateMipmapsReturn

CreateTextureImageSpec == CreateTextureImageInit /\ [][CreateTextureImageNext]_vars

\* number of integer halvings that bring n down to 1
RECURSIVE Halvings(_)
Halvings(n) == IF n <= 1 THEN 0 ELSE 1 + Halvings(n \div 2)

\* C21: for every texture width and height >= 1, create_texture_image sets
\* mip_levels_ to floor(log2(max(width, height))) + 1, one more than the
\* number of integer halvings that bring max(width, height) down to 1
\* (10 for 512x256).
C21_MipLevelsIsFloorLog2Plus1 ==
    texture_image_call.at \notin {"not_called", "create_texture_image"} =>
        LET w == texture_image_call.width
            h == texture_image_call.height
            larger == IF w >= h THEN w ELSE h
            n == texture_image_call.mip_levels_
        IN  /\ n = Halvings(larger) + 1
            /\ 2 ^ (n - 1) <= larger /\ larger < 2 ^ n
            /\ (w = 512 /\ h = 256) => n = 10

\* a 512x256 image has been loaded and given 10 levels
C21_Witness ==
    /\ texture_image_call.at = "generate_mipmaps"
    /\ texture_image_call.width = 512
    /\ texture_image_call.height = 256
    /\ texture_image_call.mip_levels_ = 10

\* C22: for a WxH image with N = floor(log2(max(W,H))) + 1 levels,
\* generate_mipmaps blits into each level i in 1 .. N-1 with the extent
\* (max(1, prev_width div 2), max(1, prev_height div 2)), prev being the
\* extent of level i - 1: each dimension is half the previous level's, never
\* below 1, and the last level is exactly 1x1.
C22_MipChainHalvesDownToOne ==
    texture_image_call.at \in {"loop", "returned"} =>
        LET w == texture_image_call.width
            h == texture_image_call.height
            N == Halvings(IF w >= h THEN w ELSE h) + 1
            blits == texture_image_call.blits
            extent(level) == IF level = 0 THEN <<w, h>> ELSE blits[level].dst
            half(x) == IF x \div 2 >= 1 THEN x \div 2 ELSE 1
        IN  /\ Len(blits) <= N - 1
            /\ \A k \in 1 .. Len(blits) :
                 /\ blits[k].dstLevel = k
                 /\ blits[k].srcLevel = k - 1
                 /\ blits[k].src = extent(k - 1)
                 /\ blits[k].dst = <<half(extent(k - 1)[1]), half(extent(k - 1)[2])>>
                 /\ blits[k].dst[1] >= 1 /\ blits[k].dst[2] >= 1
            /\ texture_image_call.at = "returned" =>
                 /\ Len(blits) = N - 1
                 /\ extent(N - 1) = <<1, 1>>

\* the chain of a 512x256 image: nine blits, the last two into 2x1 and 1x1
C22_Witness ==
    /\ texture_image_call.at = "returned"
    /\ texture_image_call.width = 512
    /\ texture_image_call.height = 256
    /\ Len(texture_image_call.blits) = 9
    /\ texture_image_call.blits[8].dst = <<2, 1>>
    /\ texture_image_call.blits[9].dst = <<1, 1>>

(* ---------------------------------------------------------------------- *)
(* transition_image_layout                                                *)
(* ---------------------------------------------------------------------- *)
ImageLayouts ==
    {"UNDEFINED", "GENERAL", "TRANSFER_SRC_OPTIMAL", "TRANSFER_DST_OPTIMAL",
     "SHADER_READ_ONLY_OPTIMAL", "DEPTH_STENCIL_ATTACHMENT_OPTIMAL"}

ImageFormats == {"R8G8B8A8_SRGB", "D32_SFLOAT", "D32_SFLOAT_S8_UINT", "D24_UNORM_S8_UINT"}

has_stencil_component(format) ==
    format = "D32_SFLOAT_S8_UINT" \/ format = "D24_UNORM_S8_UINT"

\* barrier.subresourceRange.aspectMask
AspectMask(new_layout, format) ==
    IF new_layout = "DEPTH_STENCIL_ATTACHMENT_OPTIMAL"
    THEN {"DEPTH"} \cup (IF has_stencil_component(format) THEN {"STENCIL"} ELSE {})
    ELSE {"COLOR"}

UnsupportedTransition == "unsupported layout transition!"

\* (variant: a transition into the transfer-destination layout is taken from
\* any old layout)
LayoutTransition_AnyOldToTransferDst(old_layout, new_layout) ==
    IF new_layout = "TRANSFER_DST_OPTIMAL"
    THEN [srcAccessMask |-> {}, dstAccessMask |-> {"TRANSFER_WRITE"},
          source_stage |-> "TOP_OF_PIPE", destination_stage |-> "TRANSFER"]
    ELSE IF old_layout = "TRANSFER_DST_OPTIMAL"
            /\ new_layout = "SHADER_READ_ONLY_OPTIMAL"
    THEN [srcAccessMask |-> {"TRANSFER_WRITE"}, dstAccessMask |-> {"SHADER_READ"},
          source_stage |-> "TRANSFER", destination_stage |-> "FRAGMENT_SHADER"]
    ELSE IF old_layout = "UNDEFINED"
            /\ new_layout = "DEPTH_STENCIL_ATTACHMENT_OPTIMAL"
    THEN [srcAccessMask |-> {},
          dstAccessMask |-> {"DEPTH_STENCIL_ATTACHMENT_READ",
                             "DEPTH_STENCIL_ATTACHMENT_WRITE"},
          source_stage |-> "TOP_OF_PIPE",
          destination_stage |-> "EARLY_FRAGMENT_TESTS"]
    ELSE [throw |-> UnsupportedTransition]

\* the if/else chain that chooses the access masks and the pipeline stages
LayoutTransition(old_layout, new_layout) ==
    IF old_layout = "UNDEFINED" /\ new_layout = "TRANSFER_DST_OPTIMAL"
    THEN [srcAccessMask |-> {}, dstAccessMask |-> {"TRANSFER_WRITE"},
          source_stage |-> "TOP_OF_PIPE", destination_stage |-> "TRANSFER"]
    ELSE IF old_layout = "TRANSFER_DST_OPTIMAL"
            /\ new_layout = "SHADER_READ_ONLY_OPTIMAL"
    THEN [srcAccessMask |-> {"TRANSFER_WRITE"}, dstAccessMask |-> {"SHADER_READ"},
          source_stage |-> "TRANSFER", destination_stage |-> "FRAGMENT_SHADER"]
    ELSE IF old_layout = "UNDEFINED"
            /\ new_layout = "DEPTH_STENCIL_ATTACHMENT_OPTIMAL"
    THEN [srcAccessMask |-> {},
          dstAccessMask |-> {"DEPTH_STENCIL_ATTACHMENT_READ",
                             "DEPTH_STENCIL_ATTACHMENT_WRITE"},
          source_stage |-> "TOP_OF_PIPE",
          destination_stage |-> "EARLY_FRAGMENT_TESTS"]
    ELSE [throw |-> UnsupportedTransition]

\* transition_image_layout is called with any pair of layouts and any format
TransitionImageLayoutInit ==
    /\ LoopInit
    /\ find_queue_families_call = NotCalled
    /\ staged_upload_call = NotCalled
    /\ init_vulkan_call = NotCalled
    /\ choose_swap_extent_call = NotCalled
    /\ max_usable_sample_count_call = NotCalled
    /\ find_memory_type_call = NotCalled
    /\ load_model_call = NotCalled
    /\ texture_image_call = NotCalled
    /\ read_file_call = NotCalled
    /\ create_swap_chain_call = NotCalled
    /\ \E old_layout \in ImageLayouts, new_layout \in ImageLayouts,
          format \in ImageFormats :
         transition_image_layout_call =
             [at |-> "begin", old_layout |-> old_layout, new_layout |-> new_layout,
              format |-> format, command_buffer |-> "none", aspectMask |-> {},
              masks |-> [none |-> TRUE], error |-> "", submitted |-> <<>>]

\* begin_single_time_commands (the allocation may fail, which throws), then
\* the barrier's fields up to the aspect mask
TransitionImageLayoutBegin ==
    /\ transition_image_layout_call.at = "begin"
    /\ \E allocated \in BOOLEAN :
         transition_image_layout_call' =
             IF allocated
             THEN [transition_image_layout_call EXCEPT
                     !.at = "stages",
                     !.command_buffer = "recording",
                     !.aspectMask = AspectMask(transition_image_layout_call.new_layout,
                                               transition_image_layout_call.format)]
             ELSE [transition_image_layout_call EXCEPT
                     !.at = "threw",
                     !.error = "failed to allocate command buffer!"]
    /\ UNCHANGED <<loopVars, find_memory_type_call, load_model_call,
                   texture_image_call, read_file_call, create_swap_chain_call,
                   find_queue_families_call, staged_upload_call,
                   init_vulkan_call, choose_swap_extent_call,
                   max_usable_sample_count_call>>

\* the if/else chain
TransitionImageLayoutStages ==
    /\ transition_image_layout_call.at = "stages"
    /\ LET t == LayoutTransition(transition_image_layout_call.old_layout,
                                 transition_image_layout_call.new_layout)
       IN  transition_image_layout_call' =
             IF "throw" \in DOMAIN t
             THEN [transition_image_layout_call EXCEPT
                     !.at = "threw", !.error = t.throw]
             ELSE [transition_image_layout_call EXCEPT
                     !.at = "barrier", !.masks = t]
    /\ UNCHANGED <<loopVars, find_memory_type_call, load_model_call,
                   texture_image_call, read_file_call, create_swap_chain_call,
                   find_queue_families_call, staged_upload_call,
                   init_vulkan_call, choose_swap_extent_call,
                   max_usable_sample_count_call>>

\* vkCmdPipelineBarrier, then end_single_time_commands: the command buffer
\* is submitted to the graphics queue (the result of vkQueueSubmit is not
\* looked at), the queue is waited for and the command buffer is freed
TransitionImageLayoutEnd ==
    /\ transition_image_layout_call.at = "barrier"
    /\ \E submit_ok \in BOOLEAN :
         transition_image_layout_call' =
             [transition_image_layout_call EXCEPT
                !.at = "returned",
                !.command_buffer = "freed",
                !.submitted =
                    IF submit_ok
                    THEN <<[oldLayout |-> transition_image_layout_call.old_layout,
                            newLayout |-> transition_image_layout_call.new_layout,
                            aspectMask |-> transition_image_layout_call.aspectMask,
                            masks |-> transition_image_layout_call.masks]>>
                    ELSE <<>>]
    /\ UNCHANGED <<loopVars, find_memory_type_call, load_model_call,
                   texture_image_call, read_file_call, create_swap_chain_call,
                   find_queue_families_call, staged_upload_call,
                   init_vulkan_call, choose_swap_extent_call,
                   max_usable_sample_count_call>>

TransitionImageLayoutNext ==
    \/ TransitionImageLayoutBegin
    \/ TransitionImageLayoutStages
    \/ TransitionImageLayoutEnd

TransitionImageLayoutSpec ==
    TransitionImageLayoutInit /\ [][TransitionImageLayoutNext]_vars

\* the three transitions the engine uses
AcceptedTransitions ==
    {<<"UNDEFINED", "TRANSFER_DST_OPTIMAL">>,
     <<"TRANSFER_DST_OPTIMAL", "SHADER_READ_ONLY_OPTIMAL">>,
     <<"UNDEFINED", "DEPTH_STENCIL_ATTACHMENT_OPTIMAL">>}

RequestedTransition ==
    <<transition_image_layout_call.old_layout,
      transition_image_layout_call.new_layout>>

TransitionImageLayoutEnded ==
    transition_image_layout_call.at \in {"returned", "threw"}

\* C23 as stated: transition_image_layout accepts exactly the three pairs
\* undefined -> transfer-destination, transfer-destination ->
\* shader-read-only and undefined -> depth-stencil-attachment; for every
\* other pair it raises the unsupported-transition error and submits no
\* barrier to the graphics queue.
C23_AcceptsExactlyThreeTransitions ==
    TransitionImageLayoutEnded =>
        /\ transition_image_layout_call.at = "returned"
              <=> RequestedTransition \in AcceptedTransitions
        /\ RequestedTransition \notin AcceptedTransitions =>
              /\ transition_image_layout_call.error = UnsupportedTransition
              /\ transition_image_layout_call.submitted = <<>>

\* C23, amended: once its one-shot command buffer is allocated,
\* transition_image_layout accepts exactly the three pairs and raises the
\* unsupported-transition error for every other pair; when the allocation
\* fails it raises the allocation error for every pair, before it looks at
\* the layouts.  Whenever it raises, and for every pair outside the three,
\* no barrier is submitted to the graphics queue.
C23_AcceptsExactlyThreeTransitionsOnceAllocated ==
    TransitionImageLayoutEnded =>
        /\ transition_image_layout_call.command_buffer # "none" =>
              /\ transition_image_layout_call.at = "returned"
                    <=> RequestedTransition \in AcceptedTransitions
              /\ RequestedTransition \notin AcceptedTransitions =>
                    transition_image_layout_call.error = UnsupportedTransition
        /\ transition_image_layout_call.command_buffer = "none" =>
              /\ transition_image_layout_call.at = "threw"
              /\ transition_image_layout_call.error # UnsupportedTransition
        /\ transition_image_layout_call.at = "threw" =>
              transition_image_layout_call.submitted = <<>>
        /\ RequestedTransition \notin AcceptedTransitions =>
              transition_image_layout_call.submitted = <<>>

\* a transition outside the three has been refused after the allocation
C23_Witness ==
    /\ transition_image_layout_call.at = "threw"
    /\ transition_image_layout_call.command_buffer = "recording"
    /\ transition_image_layout_call.error = UnsupportedTransition
    /\ RequestedTransition = <<"TRANSFER_DST_OPTIMAL", "UNDEFINED">>

\* C24: the process exits with status 0 only after a clean window-close
\* shutdown whose cleanup completed, and exits with a non-zero status, after
\* writing the error message to the error stream, whenever a fatal error
\* raised in init_vulkan or the frame loop propagates out of run().
C24_ExitStatusReflectsOutcome ==
    /\ [](exit_status = <<EXIT_SUCCESS>> =>
            /\ pc = "done"
            /\ should_close
            /\ exception = NoException
            /\ error_stream = <<>>
            /\ live = {})
    /\ [](exit_status \notin {Running, <<EXIT_SUCCESS>>} =>
            /\ pc = "failed"
            /\ exception # NoException
            /\ error_stream = <<exception>>)
    /\ [](pc = "failed" => exception # NoException)
    /\ [][pc = "failed" /\ exit_status = Running =>
            /\ exit_status' # <<EXIT_SUCCESS>> /\ exit_status' # Running
            /\ error_stream' = <<exception>>]_vars

\* the frame loop has thrown after a frame was presented, and main has
\* reported the error
C24_Witness ==
    /\ pc = "failed"
    /\ presented > 0
    /\ exit_status = <<EXIT_FAILURE>>
    /\ error_stream = <<"failed to acquire swap chain image">>

(* ---------------------------------------------------------------------- *)
(* read_file                                                              *)
(* ---------------------------------------------------------------------- *)
\* the files followed hold at most MaxFileLen bytes
MaxFileLen == 4

Bytes == {0, 1}

FileContents == UNION {[1 .. n -> Bytes] : n \in 0 .. MaxFileLen}

\* read_file is called on a file that can be opened or not, of any content
ReadFileInit ==
    /\ LoopInit
    /\ find_queue_families_call = NotCalled
    /\ staged_upload_call = NotCalled
    /\ init_vulkan_call = NotCalled
    /\ choose_swap_extent_call = NotCalled
    /\ max_usable_sample_count_call = NotCalled
    /\ find_memory_type_call = NotCalled
    /\ load_model_call = NotCalled
    /\ texture_image_call = NotCalled
    /\ transition_image_layout_call = NotCalled
    /\ create_swap_chain_call = NotCalled
    /\ \E can_open \in BOOLEAN, content \in FileContents :
         read_file_call =
             [at |-> "open", can_open |-> can_open, content |-> content,
              eof |-> 0, buffer |-> <<>>, position |-> 0, error |-> ""]

\* std::ifstream stream{file, ate | binary}; if (!stream) throw
ReadFileOpen ==
    /\ read_file_call.at = "open"
    /\ read_file_call' =
         IF ~read_file_call.can_open
         THEN [read_file_call EXCEPT !.at = "threw", !.error = "failed to open file!"]
         ELSE [read_file_call EXCEPT
                 !.at = "tellg", !.position = Len(read_file_call.content)]
    /\ UNCHANGED <<loopVars, find_memory_type_call, load_model_call,
                   texture_image_call, transition_image_layout_call,
                   create_swap_chain_call,
                   find_queue_families_call, staged_upload_call,
                   init_vulkan_call, choose_swap_extent_call,
                   max_usable_sample_count_call>>

\* eof = stream.tellg(); buffer(eof): eof value-initialized chars
ReadFileAllocate ==
    /\ read_file_call.at = "tellg"
    /\ read_file_call' =
         [read_file_call EXCEPT
            !.at = "read",
            !.eof = read_file_call.position,
            !.buffer = [k \in 1 .. read_file_call.position |-> 0]]
    /\ UNCHANGED <<loopVars, find_memory_type_call, load_model_call,
                   texture_image_call, transition_image_layout_call,
                   create_swap_chain_call,
                   find_queue_families_call, staged_upload_call,
                   init_vulkan_call, choose_swap_extent_call,
                   max_usable_sample_count_call>>

\* stream.seekg(0); stream.read(buffer.data(), eof); return buffer
ReadFileRead ==
    /\ read_file_call.at = "read"
    /\ read_file_call' =
         [read_file_call EXCEPT
            !.at = "returned",
            !.position = read_file_call.eof,
            !.buffer = [k \in 1 .. Len(read_file_call.buffer) |->
                           IF k <= read_file_call.eof
                           THEN read_file_call.content[k]
                           ELSE read_file_call.buffer[k]]]
    /\ UNCHANGED <<loopVars, find_memory_type_call, load_model_call,
                   texture_image_call, transition_image_layout_call,
                   create_swap_chain_call,
                   find_queue_families_call, staged_upload_call,
                   init_vulkan_call, choose_swap_extent_call,
                   max_usable_sample_count_call>>

ReadFileNext == ReadFileOpen \/ ReadFileAllocate \/ ReadFileRead

ReadFileSpec == ReadFileInit /\ [][ReadFileNext]_vars

\* C25: reading a shader binary is fatal for a zero-length or unreadable
\* file: read_file raises an error when the file cannot be opened and when
\* the file has length zero, and never returns an empty byte buffer to the
\* caller.
C25_ReadFileNeverReturnsEmpty ==
    /\ read_file_call.at = "returned" =>
          /\ read_file_call.buffer # <<>>
          /\ read_file_call.buffer = read_file_call.content
    /\ read_file_call.at \in {"returned", "threw"} =>
          (~read_file_call.can_open \/ read_file_call.content = <<>>
              => read_file_call.at = "threw")

\* C26: over the whole run (startup, any number of swapchain recreations,
\* final cleanup) every device resource handle is destroyed at most once:
\* cleanup_swap_chain and cleanup never destroy a handle that was already
\* destroyed and has not been re-created since.
C26_HandlesDestroyedAtMostOnce ==
    [][/\ (pc = "rc_cleanup" /\ pc' # pc) => CleanupSwapChainHandles \subseteq live
       /\ (pc = "cleanup" /\ pc' # pc) =>
             (CleanupSwapChainHandles \cup persistent_) \subseteq live]_vars

\* the oldest submission completes in this step and signals its semaphore
SubmissionCompletes ==
    /\ graphics_queue # <<>>
    /\ graphics_queue' = Tail(graphics_queue)
    /\ ~device_lost'

\* C27: a slot's render-finished semaphore is signaled by a new submission
\* only after the present operation that waits on its previous signal has
\* consumed it: for every interleaving of submission completion and
\* presentation on the device, no semaphore is signaled while an earlier
\* signal of it is still unconsumed.
C27_NoSignalWhileUnconsumed ==
    [][SubmissionCompletes =>
          semaphores[Head(graphics_queue).signal].state = "unsignaled"]_vars

\* a submission that signals slot s's fence is pending, and it and every
\* submission before it can start: the semaphore each waits on is signaled
WillSignalFence(s) ==
    \E i \in 1 .. Len(graphics_queue) :
        /\ graphics_queue[i].fence = s
        /\ \A j \in 1 .. i : semaphores[graphics_queue[j].wait].state = "signaled"

\* C28: draw_frame's infinite-timeout fence wait never deadlocks: whenever a
\* frame begins, the current slot's in-flight fence is either already
\* signaled or has a pending submission that will signal it (on a lost
\* device the wait returns at once); this holds for the first use of each
\* slot after startup, after aborted frames and after swapchain
\* recreations.  The wait therefore always returns.
C28_FenceWaitNeverDeadlocks ==
    /\ [](pc = "wait_fence" =>
            \/ in_flight_fences_[current_frame_]
            \/ WillSignalFence(current_frame_)
            \/ device_lost)
    /\ (pc = "wait_fence" ~> pc # "wait_fence")

\* the third frame begins on slot 0 while the first frame's submission,
\* which will signal the slot's fence, is still pending
C28_Witness ==
    /\ pc = "wait_fence"
    /\ frame_count = 3
    /\ ~in_flight_fences_[current_frame_]
    /\ WillSignalFence(current_frame_)

\* C29: after init_vulkan and after every recreate_swap_chain, the swapchain
\* image list, image-view list and framebuffer list have the same length and
\* all belong to the current swapchain, so every image index returned by an
\* acquire on the current swapchain selects an existing framebuffer when the
\* command buffer is recorded.
C29_SwapChainListsConsistent ==
    /\ pc \in FrameLoopPcs =>
          /\ swap_chain_ = Handle("swapchain", gen, 0)
          /\ Len(swap_chain_images_) >= 1
          /\ Len(swap_chain_image_views_) = Len(swap_chain_images_)
          /\ Len(swap_chain_framebuffers_) = Len(swap_chain_images_)
          /\ \A i \in 1 .. Len(swap_chain_images_) :
                /\ swap_chain_images_[i] = Handle("swapchain_image", gen, i)
                /\ swap_chain_image_views_[i] = Handle("swapchain_image_view", gen, i)
                /\ swap_chain_framebuffers_[i].handle = Handle("framebuffer", gen, i)
                /\ swap_chain_framebuffers_[i].attachments[3]
                       = swap_chain_image_views_[i]
    /\ pc \in {"reset_fence", "record"} =>
          (image_index + 1) \in DOMAIN swap_chain_framebuffers_

\* a command buffer is recorded on the only framebuffer of the second
\* swapchain, after a frame that used the second framebuffer of the first
C29_Witness ==
    /\ pc = "record"
    /\ gen = 2
    /\ Len(swap_chain_framebuffers_) = 1
    /\ image_index = 0
    /\ \E s \in Slots : command_buffers_[s].framebuffer = Handle("framebuffer", 1, 2)

(* ---------------------------------------------------------------------- *)
(* create_swap_chain: the create info                                     *)
(* ---------------------------------------------------------------------- *)
\* queue family indices run from 0 to MaxQueueFamily
MaxQueueFamily == 3

QueueFamilies == 0 .. MaxQueueFamily

\* std::array queue_family_indices{...}: the array the create info may point to
QueueFamilyIndicesArray(graphics_family, present_family) ==
    <<present_family, present_family>>

\* the sharing mode, the index count and the index list of the create info
SharingFields(graphics_family, present_family) ==
    IF graphics_family # present_family
    THEN [imageSharingMode |-> "VK_SHARING_MODE_CONCURRENT",
          queueFamilyIndexCount |-> 2,
          pQueueFamilyIndices |->
              QueueFamilyIndicesArray(graphics_family, present_family)]
    ELSE [imageSharingMode |-> "VK_SHARING_MODE_EXCLUSIVE",
          queueFamilyIndexCount |-> 0,
          pQueueFamilyIndices |-> <<>>]

\* create_swap_chain is called on a device with any graphics and present
\* queue family and any surface capabilities
CreateSwapChainInit ==
    /\ LoopInit
    /\ find_queue_families_call = NotCalled
    /\ staged_upload_call = NotCalled
    /\ init_vulkan_call = NotCalled
    /\ choose_swap_extent_call = NotCalled
    /\ max_usable_sample_count_call = NotCalled
    /\ find_memory_type_call = NotCalled
    /\ load_model_call = NotCalled
    /\ texture_image_call = NotCalled
    /\ transition_image_layout_call = NotCalled
    /\ read_file_call = NotCalled
    /\ \E graphics_family \in QueueFamilies, present_family \in QueueFamilies,
          capabilities \in ReportedCapabilities :
         create_swap_chain_call =
             [at |-> "image_count", graphics_family |-> graphics_family,
              present_family |-> present_family, capabilities |-> capabilities,
              create_info |-> [minImageCount |-> 0], swap_chain_ |-> NullHandle,
              error |-> ""]

\* the image count and the fields of the create info that do not depend on
\* the queue families
CreateSwapChainImageCount ==
    /\ create_swap_chain_call.at = "image_count"
    /\ create_swap_chain_call' =
         [create_swap_chain_call EXCEPT
            !.at = "sharing",
            !.create_info =
                [minImageCount |-> ImageCount(create_swap_chain_call.capabilities)]]
    /\ UNCHANGED <<loopVars, find_memory_type_call, load_model_call,
                   texture_image_call, transition_image_layout_call,
                   read_file_call,
                   find_queue_families_call, staged_upload_call,
                   init_vulkan_call, choose_swap_extent_call,
                   max_usable_sample_count_call>>

\* find_queue_families, then the test of the two families
CreateSwapChainSharing ==
    /\ create_swap_chain_call.at = "sharing"
    /\ create_swap_chain_call' =
         [create_swap_chain_call EXCEPT
            !.at = "create",
            !.create_info =
                [minImageCount |-> create_swap_chain_call.create_info.minImageCount,
                 sharing |-> SharingFields(create_swap_chain_call.graphics_family,
                                           create_swap_chain_call.present_family)]]
    /\ UNCHANGED <<loopVars, find_memory_type_call, load_model_call,
                   texture_image_call, transition_image_layout_call,
                   read_file_call,
                   find_queue_families_call, staged_upload_call,
                   init_vulkan_call, choose_swap_extent_call,
                   max_usable_sample_count_call>>

\* vkCreateSwapchainKHR; a failure throws
CreateSwapChainCreate ==
    /\ create_swap_chain_call.at = "create"
    /\ \E ok \in BOOLEAN :
         create_swap_chain_call' =
             IF ok
             THEN [create_swap_chain_call EXCEPT
                     !.at = "returned", !.swap_chain_ = Handle("swapchain", 1, 0)]
             ELSE [create_swap_chain_call EXCEPT
                     !.at = "threw", !.error = "failed to create swap chain!"]
    /\ UNCHANGED <<loopVars, find_memory_type_call, load_model_call,
                   texture_image_call, transition_image_layout_call,
                   read_file_call,
                   find_queue_families_call, staged_upload_call,
                   init_vulkan_call, choose_swap_extent_call,
                   max_usable_sample_count_call>>

CreateSwapChainNext ==
    \/ CreateSwapChainImageCount
    \/ CreateSwapChainSharing
    \/ CreateSwapChainCreate

CreateSwapChainSpec == CreateSwapChainInit /\ [][CreateSwapChainNext]_vars

\* C30: when the graphics and present queue families differ,
\* create_swap_chain creates the swapchain in concurrent sharing mode with a
\* queue-family list that contains both the graphics family index and the
\* present family index; when they are the same family it uses exclusive
\* mode with no family list.
C30_SharingModeMatchesQueueFamilies ==
    create_swap_chain_call.at \in {"create", "returned", "threw"} =>
        LET sharing == create_swap_chain_call.create_info.sharing
            graphics == create_swap_chain_call.graphics_family
            present == create_swap_chain_call.present_family
            listed == {sharing.pQueueFamilyIndices[k] :
                          k \in 1 .. sharing.queueFamilyIndexCount}
        IN  IF graphics # present
            THEN /\ sharing.imageSharingMode = "VK_SHARING_MODE_CONCURRENT"
                 /\ graphics \in listed
                 /\ present \in listed
            ELSE /\ sharing.imageSharingMode = "VK_SHARING_MODE_EXCLUSIVE"
                 /\ sharing.queueFamilyIndexCount = 0
                 /\ sharing.pQueueFamilyIndices = <<>>

(* ---------------------------------------------------------------------- *)
(* find_queue_families                                                    *)
(* ---------------------------------------------------------------------- *)
\* the devices followed have at most MaxQueueFamilyCount queue families
MaxQueueFamilyCount == 3

\* a queue family: does queueFlags hold VK_QUEUE_GRAPHICS_BIT, does
\* vkGetPhysicalDeviceSurfaceSupportKHR report present support
QueueFamilyProperties == [graphics : BOOLEAN, present_support : BOOLEAN]

QueueFamilyLists ==
    UNION {[1 .. n -> QueueFamilyProperties] : n \in 0 .. MaxQueueFamilyCount}

\* find_queue_families is called on a device with any list of families; an
\* std::optional is the empty sequence or a sequence of one index
FindQueueFamiliesInit ==
    /\ LoopInit
    /\ find_memory_type_call = NotCalled
    /\ load_model_call = NotCalled
    /\ texture_image_call = NotCalled
    /\ transition_image_layout_call = NotCalled
    /\ read_file_call = NotCalled
    /\ create_swap_chain_call = NotCalled
    /\ staged_upload_call = NotCalled
    /\ init_vulkan_call = NotCalled
    /\ choose_swap_extent_call = NotCalled
    /\ max_usable_sample_count_call = NotCalled
    /\ \E queue_families \in QueueFamilyLists :
         find_queue_families_call =
             [at |-> "loop", queue_families |-> queue_families, i |-> 0,
              graphics_family |-> <<>>, present_family |-> <<>>]

\* the body of the loop for the family at index i: both assignments, then
\* the break test, then i++
FindQueueFamiliesIteration ==
    /\ find_queue_families_call.at = "loop"
    /\ find_queue_families_call.i < Len(find_queue_families_call.queue_families)
    /\ LET i == find_queue_families_call.i
           queue_family == find_queue_families_call.queue_families[i + 1]
           graphics_family == IF queue_family.graphics THEN <<i>>
                              ELSE find_queue_families_call.graphics_family
           present_family == IF queue_family.present_support THEN <<i>>
                             ELSE find_queue_families_call.present_family
           break == graphics_family # <<>> /\ present_family # <<>>
       IN  find_queue_families_call' =
             [find_queue_families_call EXCEPT
                !.graphics_family = graphics_family,
                !.present_family = present_family,
                !.i = IF break THEN i ELSE i + 1,
                !.at = IF break THEN "returned" ELSE "loop"]
    /\ UNCHANGED <<loopVars, find_memory_type_call, load_model_call,
                   texture_image_call, transition_image_layout_call,
                   read_file_call, create_swap_chain_call, staged_upload_call,
                   init_vulkan_call, choose_swap_extent_call,
                   max_usable_sample_count_call>>

\* the list is exhausted: return indices
FindQueueFamiliesReturn ==
    /\ find_queue_families_call.at = "loop"
    /\ find_queue_families_call.i = Len(find_queue_families_call.queue_families)
    /\ find_queue_families_call' = [find_queue_families_call EXCEPT !.at = "returned"]
    /\ UNCHANGED <<loopVars, find_memory_type_call, load_model_call,
                   texture_image_call, transition_image_layout_call,
                   read_file_call, create_swap_chain_call, staged_upload_call,
                   init_vulkan_call, choose_swap_extent_call,
                   max_usable_sample_count_call>>

FindQueueFamiliesNext == FindQueueFamiliesIteration \/ FindQueueFamiliesReturn

FindQueueFamiliesSpec == FindQueueFamiliesInit /\ [][FindQueueFamiliesNext]_vars

\* the lowest index of a family with the capability, as an optional
LowestFamily(capable) ==
    IF capable = {} THEN <<>>
    ELSE <<CHOOSE k \in capable : \A j \in capable : k <= j>>

\* C31: for every list of queue families, find_queue_families returns as
\* graphics family the lowest index of a graphics-capable family and as
\* present family the lowest index of a present-capable family, each chosen
\* independently of the other, and stops scanning once both are set; an
\* index is absent exactly when no family has that capability.
C31_LowestCapableFamilies ==
    find_queue_families_call.at = "returned" =>
        LET families == find_queue_families_call.queue_families
            indices == 0 .. (Len(families) - 1)
        IN  /\ find_queue_families_call.graphics_family =
                  LowestFamily({k \in indices : families[k + 1].graphics})
            /\ find_queue_families_call.present_family =
                  LowestFamily({k \in indices : families[k + 1].present_support})

\* C32: after generate_mipmaps completes on an image with N >= 1 mip levels
\* that all start in transfer-destination layout, every level 0 .. N-1 is
\* in shader-read-only layout, and each level was transitioned to
\* shader-read-only exactly once.
C32_AllLevelsShaderReadOnlyOnce ==
    texture_image_call.at = "returned" =>
        LET N == texture_image_call.mip_levels_
            barriers == texture_image_call.barriers
        IN  /\ N >= 1
            /\ Len(texture_image_call.layouts) = N
            /\ \A level \in 0 .. (N - 1) :
                 /\ texture_image_call.layouts[level + 1] = "SHADER_READ_ONLY_OPTIMAL"
                 /\ Cardinality({k \in 1 .. Len(barriers) :
                        /\ barriers[k].baseMipLevel = level
                        /\ barriers[k].newLayout = "SHADER_READ_ONLY_OPTIMAL"}) = 1

\* the four levels of an 8x3 image have each been made shader-read-only
C32_Witness ==
    /\ texture_image_call.at = "returned"
    /\ texture_image_call.width = 8
    /\ texture_image_call.height = 3
    /\ texture_image_call.layouts =
           <<"SHADER_READ_ONLY_OPTIMAL", "SHADER_READ_ONLY_OPTIMAL",
             "SHADER_READ_ONLY_OPTIMAL", "SHADER_READ_ONLY_OPTIMAL">>
    /\ Len(texture_image_call.barriers) = 7

\* C33: in generate_mipmaps, for every i in 1 .. N-1 the blit into level i
\* reads level i-1 while level i-1 is in transfer-source layout and after
\* level i-1 has been fully written (by the initial buffer copy for level 0,
\* by the previous blit otherwise), and writes level i while level i is in
\* transfer-destination layout; no level is used as a blit source or
\* destination after it has been transitioned to shader-read-only.
C33_BlitsUseLevelsInTransferLayouts ==
    texture_image_call.at \in {"loop", "returned"} =>
        LET blits == texture_image_call.blits
        IN  /\ \A k \in 1 .. Len(blits) :
                 /\ blits[k].srcLevel = k - 1
                 /\ blits[k].dstLevel = k
                 /\ blits[k].srcLayout = "TRANSFER_SRC_OPTIMAL"
                 /\ blits[k].srcWritten
                 /\ blits[k].dstLayout = "TRANSFER_DST_OPTIMAL"
            \* the levels already shader-read-only are the sources of the
            \* blits done, which no later blit touches
            /\ texture_image_call.at = "loop" =>
                 \A level \in 0 .. (texture_image_call.mip_levels_ - 1) :
                     texture_image_call.layouts[level + 1] = "SHADER_READ_ONLY_OPTIMAL"
                         <=> level < Len(blits)
            /\ texture_image_call.at = "returned" =>
                 Len(blits) = texture_image_call.mip_levels_ - 1

\* in the middle of the chain of a 512x256 image: level 4 has been blitted
\* into level 5, levels 0 .. 4 are shader-read-only, the rest are still
\* transfer destinations
C33_Witness ==
    /\ texture_image_call.at = "loop"
    /\ texture_image_call.width = 512
    /\ texture_image_call.i = 6
    /\ texture_image_call.blits[5].srcLayout = "TRANSFER_SRC_OPTIMAL"
    /\ texture_image_call.layouts[5] = "SHADER_READ_ONLY_OPTIMAL"
    /\ texture_image_call.layouts[6] = "TRANSFER_DST_OPTIMAL"

(* ---------------------------------------------------------------------- *)
(* Staged uploads: create_vertex_buffer, create_index_buffer,             *)
(* create_texture_image                                                   *)
(* ---------------------------------------------------------------------- *)
\* the one-shot command buffers each upload submits, in order
OneShotCommands(kind) ==
    IF kind = "create_texture_image"
    THEN <<"transition_image_layout", "copy_buffer_to_image", "generate_mipmaps">>
    ELSE <<"copy_buffer">>

\* the one-shot commands that read the staging buffer
ReadsStagingBuffer(command) == command \in {"copy_buffer", "copy_buffer_to_image"}

\* what the host copies into the staging buffer
UploadData == [1 .. 2 -> {0, 1}]

\* the content of a buffer or image nothing has been written to, or that has
\* been filled from freed memory
Undefined == <<>>

\* vkQueueWaitIdle(graphics_queue) returns when the queue has no work left
QueueWaitIdleReturns(queue) == queue = <<>>

StagedUploadInit ==
    /\ LoopInit
    /\ find_memory_type_call = NotCalled
    /\ load_model_call = NotCalled
    /\ texture_image_call = NotCalled
    /\ transition_image_layout_call = NotCalled
    /\ read_file_call = NotCalled
    /\ create_swap_chain_call = NotCalled
    /\ find_queue_families_call = NotCalled
    /\ init_vulkan_call = NotCalled
    /\ choose_swap_extent_call = NotCalled
    /\ max_usable_sample_count_call = NotCalled
    /\ \E kind \in {"create_vertex_buffer", "create_index_buffer",
                    "create_texture_image"},
          data \in UploadData :
         staged_upload_call =
             [at |-> "create_staging", kind |-> kind, data |-> data,
              commands |-> OneShotCommands(kind),
              staging_buffer |-> "none", staging_buffer_memory |-> "none",
              staging_content |-> Undefined, target_content |-> Undefined,
              command_buffer |-> "none", queue |-> <<>>,
              submitted |-> {}, completed |-> {}, freed |-> {}, error |-> ""]

\* create_buffer for the staging buffer (it throws when the buffer or its
\* memory cannot be created), vkMapMemory, memcpy, vkUnmapMemory, then the
\* creation of the target buffer or image
StagedUploadCreate ==
    /\ staged_upload_call.at = "create_staging"
    /\ \E ok \in BOOLEAN :
         staged_upload_call' =
             IF ok
             THEN [staged_upload_call EXCEPT
                     !.at = "begin",
                     !.staging_buffer = "live",
                     !.staging_buffer_memory = "live",
                     !.staging_content = staged_upload_call.data]
             ELSE [staged_upload_call EXCEPT
                     !.at = "threw", !.error = "failed to create buffer!"]
    /\ UNCHANGED <<loopVars, find_memory_type_call, load_model_call,
                   texture_image_call, transition_image_layout_call,
                   read_file_call, create_swap_chain_call,
                   find_queue_families_call, init_vulkan_call,
                   choose_swap_extent_call, max_usable_sample_count_call>>

\* begin_single_time_commands (the allocation may fail, which throws) and
\* the recording of the next one-shot command buffer
StagedUploadBegin ==
    /\ staged_upload_call.at = "begin"
    /\ \E allocated \in BOOLEAN :
         staged_upload_call' =
             IF allocated
             THEN [staged_upload_call EXCEPT
                     !.at = "submit", !.command_buffer = "recorded"]
             ELSE [staged_upload_call EXCEPT
                     !.at = "threw",
                     !.error = "failed to allocate command buffer!"]
    /\ UNCHANGED <<loopVars, find_memory_type_call, load_model_call,
                   texture_image_call, transition_image_layout_call,
                   read_file_call, create_swap_chain_call,
                   find_queue_families_call, init_vulkan_call,
                   choose_swap_extent_call, max_usable_sample_count_call>>

\* end_single_time_commands: vkEndCommandBuffer and vkQueueSubmit, whose
\* result is not looked at
StagedUploadSubmit ==
    /\ staged_upload_call.at = "submit"
    /\ \E ok \in BOOLEAN :
         staged_upload_call' =
             IF ok
             THEN [staged_upload_call EXCEPT
                     !.at = "wait_idle",
                     !.command_buffer = "pending",
                     !.queue = Append(@, Head(staged_upload_call.commands)),
                     !.submitted = @ \cup {Head(staged_upload_call.commands)}]
             ELSE [staged_upload_call EXCEPT !.at = "wait_idle"]
    /\ UNCHANGED <<loopVars, find_memory_type_call, load_model_call,
                   texture_image_call, transition_image_layout_call,
                   read_file_call, create_swap_chain_call,
                   find_queue_families_call, init_vulkan_call,
                   choose_swap_extent_call, max_usable_sample_count_call>>

\* end_single_time_commands: vkQueueWaitIdle
StagedUploadWaitIdle ==
    /\ staged_upload_call.at = "wait_idle"
    /\ QueueWaitIdleReturns(staged_upload_call.queue)
    /\ staged_upload_call' = [staged_upload_call EXCEPT !.at = "free_command_buffer"]
    /\ UNCHANGED <<loopVars, find_memory_type_call, load_model_call,
                   texture_image_call, transition_image_layout_call,
                   read_file_call, create_swap_chain_call,
                   find_queue_families_call, init_vulkan_call,
                   choose_swap_extent_call, max_usable_sample_count_call>>

\* end_single_time_commands: vkFreeCommandBuffers; then the next one-shot
\* command buffer of the upload, or the end of the upload
StagedUploadFreeCommandBuffer ==
    /\ staged_upload_call.at = "free_command_buffer"
    /\ staged_upload_call' =
         [staged_upload_call EXCEPT
            !.command_buffer = "freed",
            !.freed = @ \cup {Head(staged_upload_call.commands)},
            !.commands = Tail(@),
            !.at = IF Tail(staged_upload_call.commands) = <<>>
                   THEN "destroy_staging" ELSE "begin"]
    /\ UNCHANGED <<loopVars, find_memory_type_call, load_model_call,
                   texture_image_call, transition_image_layout_call,
                   read_file_call, create_swap_chain_call,
                   find_queue_families_call, init_vulkan_call,
                   choose_swap_extent_call, max_usable_sample_count_call>>

\* vkDestroyBuffer(staging_buffer), vkFreeMemory(staging_buffer_memory)
StagedUploadDestroyStaging ==
    /\ staged_upload_call.at = "destroy_staging"
    /\ staged_upload_call' =
         [staged_upload_call EXCEPT
            !.staging_buffer = "destroyed",
            !.staging_buffer_memory = "freed",
            !.staging_content = Undefined,
            !.at = "returned"]
    /\ UNCHANGED <<loopVars, find_memory_type_call, load_model_call,
                   texture_image_call, transition_image_layout_call,
                   read_file_call, create_swap_chain_call,
                   find_queue_families_call, init_vulkan_call,
                   choose_swap_extent_call, max_usable_sample_count_call>>

\* the graphics queue executes its oldest command buffer; a copy moves the
\* content of the staging buffer into the target
StagedUploadExecute ==
    /\ staged_upload_call.at \notin {"not_called", "threw"}
    /\ staged_upload_call.queue # <<>>
    /\ staged_upload_call' =
         [staged_upload_call EXCEPT
            !.queue = Tail(@),
            !.completed = @ \cup {Head(staged_upload_call.queue)},
            !.command_buffer = IF @ = "pending" THEN "executed" ELSE @,
            !.target_content =
                IF ReadsStagingBuffer(Head(staged_upload_call.queue))
                THEN staged_upload_call.staging_content
                ELSE @]
    /\ UNCHANGED <<loopVars, find_memory_type_call, load_model_call,
                   texture_image_call, transition_image_layout_call,
                   read_file_call, create_swap_chain_call,
                   find_queue_families_call, init_vulkan_call,
                   choose_swap_extent_call, max_usable_sample_count_call>>

StagedUploadNext ==
    \/ StagedUploadCreate
    \/ StagedUploadBegin
    \/ StagedUploadSubmit
    \/ StagedUploadWaitIdle
    \/ StagedUploadFreeCommandBuffer
    \/ StagedUploadDestroyStaging
    \/ StagedUploadExecute

StagedUploadSpec == StagedUploadInit /\ [][StagedUploadNext]_vars

\* C34: in every staged upload (vertex buffer, index buffer, texture image)
\* the staging buffer and its memory are destroyed only after the one-shot
\* copy that reads them has been submitted and the queue has gone idle, and
\* each one-shot command buffer is freed only after its submitted work has
\* completed.
C34_StagingOutlivesItsCopy ==
    staged_upload_call.at # "not_called" =>
        /\ (staged_upload_call.staging_buffer = "destroyed"
              \/ staged_upload_call.staging_buffer_memory = "freed") =>
              /\ staged_upload_call.queue = <<>>
              /\ \E command \in staged_upload_call.submitted :
                    /\ ReadsStagingBuffer(command)
                    /\ command \in staged_upload_call.completed
        /\ \A command \in staged_upload_call.freed :
              /\ command \notin RangeOf(staged_upload_call.queue)
              /\ command \in staged_upload_call.submitted =>
                    command \in staged_upload_call.completed

\* the semaphores and the fence of every frame slot
SlotHandles == SemaphoreHandles \cup {FenceHandle(s) : s \in Slots}

\* C35: recreate_swap_chain leaves the render pass, the pipeline and its
\* layout, the descriptor pool, the vertex, index and uniform buffers, the
\* texture image and sampler, the command pool and command buffers and every
\* slot's semaphores and fence as they are, neither destroyed nor created
\* anew; a slot's objects are destroyed only by cleanup at shutdown.
C35_RecreateKeepsPersistentObjects ==
    [][/\ pc \in RecreatePcs =>
             /\ persistent_ = PersistentHandles
             /\ persistent_' = persistent_
             /\ persistent_ \subseteq live
             /\ persistent_ \subseteq live'
             /\ command_buffers_' = command_buffers_
             /\ \A h \in live' \ live : h[1] \in RecreatedKinds
       /\ (\E h \in SlotHandles : h \in live /\ h \notin live') => pc = "cleanup"]_vars

\* a recreation has run to its end and the frame loop goes on with the second
\* swapchain and the objects init_vulkan created
C35_Witness ==
    /\ gen >= 2
    /\ pc = "wait_fence"
    /\ swap_chain_ \in live
    /\ PersistentHandles \subseteq live
    /\ persistent_ = PersistentHandles

(* ---------------------------------------------------------------------- *)
(* init_vulkan: the order of its steps                                    *)
(* ---------------------------------------------------------------------- *)
\* (variant: create_framebuffers is called before create_depth_resources)
InitVulkanSteps_FramebuffersEarly ==
    <<"create_instance", "setup_debug_messenger", "create_surface",
      "pick_physical_device", "create_logical_device", "create_swap_chain",
      "create_image_views", "create_render_pass", "create_descriptor_set_layout",
      "create_graphics_pipeline", "create_command_pool", "create_color_resources",
      "create_framebuffers", "create_depth_resources", "create_texture_image",
      "create_texture_image_view", "create_texture_sampler", "load_model",
      "create_vertex_buffer", "create_index_buffer", "create_uniform_buffers",
      "create_descriptor_pool", "create_descriptor_sets", "create_command_buffers",
      "create_sync_objects">>

\* the calls of init_vulkan, in the order it makes them
InitVulkanSteps ==
    <<"create_instance", "setup_debug_messenger", "create_surface",
      "pick_physical_device", "create_logical_device", "create_swap_chain",
      "create_image_views", "create_render_pass", "create_descriptor_set_layout",
      "create_graphics_pipeline", "create_command_pool", "create_color_resources",
      "create_depth_resources", "create_framebuffers", "create_texture_image",
      "create_texture_image_view", "create_texture_sampler", "load_model",
      "create_vertex_buffer", "create_index_buffer", "create_uniform_buffers",
      "create_descriptor_pool", "create_descriptor_sets", "create_command_buffers",
      "create_sync_objects">>

\* the members each function assigns
Creates(step) ==
    CASE step = "create_instance" -> {"instance_"}
      [] step = "setup_debug_messenger" -> {"debug_messenger_"}
      [] step = "create_surface" -> {"surface_"}
      [] step = "pick_physical_device" -> {"physical_device_", "msaa_samples_"}
      [] step = "create_logical_device" ->
             {"device_", "graphics_queue_", "present_queue_"}
      [] step = "create_swap_chain" ->
             {"swap_chain_", "swap_chain_images_", "swap_chain_image_format_",
              "swap_chain_extent_"}
      [] step = "create_image_views" -> {"swap_chain_image_views_"}
      [] step = "create_render_pass" -> {"render_pass_"}
      [] step = "create_descriptor_set_layout" -> {"descriptor_set_layout_"}
      [] step = "create_graphics_pipeline" ->
             {"pipeline_layout_", "graphics_pipeline_"}
      [] step = "create_command_pool" -> {"command_pool_"}
      [] step = "create_color_resources" ->
             {"color_image_", "color_image_memory_", "color_image_view_"}
      [] step = "create_depth_resources" ->
             {"depth_image_", "depth_image_memory_", "depth_image_view_"}
      [] step = "create_framebuffers" -> {"swap_chain_framebuffers_"}
      [] step = "create_texture_image" ->
             {"mip_levels_", "texture_image_", "texture_image_memory_"}
      [] step = "create_texture_image_view" -> {"texture_image_view_"}
      [] step = "create_texture_sampler" -> {"texture_sampler_"}
      [] step = "load_model" -> {"vertices_", "indices_"}
      [] step = "create_vertex_buffer" ->
             {"vertex_buffer_", "vertex_buffer_memory_"}
      [] step = "create_index_buffer" -> {"index_buffer_", "index_buffer_memory_"}
      [] step = "create_uniform_buffers" ->
             {"uniform_buffers_", "uniform_buffers_memory_",
              "uniform_buffers_mapped_"}
      [] step = "create_descriptor_pool" -> {"descriptor_pool_"}
      [] step = "create_descriptor_sets" -> {"descriptor_sets_"}
      [] step = "create_command_buffers" -> {"command_buffers_"}
      [] step = "create_sync_objects" ->
             {"image_available_semaphores_", "render_finished_semaphores_",
              "in_flight_fences_"}
      [] OTHER -> {}

\* the members each function reads
Consumes(step) ==
    CASE step = "create_instance" -> {}
      [] step = "setup_debug_messenger" -> {"instance_"}
      [] step = "create_surface" -> {"instance_", "window_"}
      [] step = "pick_physical_device" -> {"instance_", "surface_"}
      [] step = "create_logical_device" -> {"physical_device_", "surface_"}
      [] step = "create_swap_chain" ->
             {"device_", "physical_device_", "surface_", "window_"}
      [] step = "create_image_views" ->
             {"device_", "swap_chain_images_", "swap_chain_image_format_"}
      [] step = "create_render_pass" ->
             {"device_", "physical_device_", "msaa_samples_",
              "swap_chain_image_format_"}
      [] step = "create_descriptor_set_layout" -> {"device_"}
      [] step = "create_graphics_pipeline" ->
             {"device_", "descriptor_set_layout_", "msaa_samples_", "render_pass_"}
      [] step = "create_command_pool" ->
             {"device_", "physical_device_", "surface_"}
      [] step = "create_color_resources" ->
             {"device_", "physical_device_", "msaa_samples_",
              "swap_chain_extent_", "swap_chain_image_format_"}
      [] step = "create_depth_resources" ->
             {"device_", "physical_device_", "msaa_samples_",
              "swap_chain_extent_", "command_pool_", "graphics_queue_"}
      [] step = "create_framebuffers" ->
             {"device_", "render_pass_", "color_image_view_", "depth_image_view_",
              "swap_chain_image_views_", "swap_chain_extent_"}
      [] step = "create_texture_image" ->
             {"device_", "physical_device_", "command_pool_", "graphics_queue_"}
      [] step = "create_texture_image_view" ->
             {"device_", "texture_image_", "mip_levels_"}
      [] step = "create_texture_sampler" ->
             {"device_", "physical_device_", "mip_levels_"}
      [] step = "load_model" -> {}
      [] step = "create_vertex_buffer" ->
             {"device_", "physical_device_", "command_pool_", "graphics_queue_",
              "vertices_"}
      [] step = "create_index_buffer" ->
             {"device_", "physical_device_", "command_pool_", "graphics_queue_",
              "indices_"}
      [] step = "create_uniform_buffers" -> {"device_", "physical_device_"}
      [] step = "create_descriptor_pool" -> {"device_"}
      [] step = "create_descriptor_sets" ->
             {"device_", "descriptor_pool_", "descriptor_set_layout_",
              "uniform_buffers_", "texture_image_view_", "texture_sampler_"}
      [] step = "create_command_buffers" -> {"device_", "command_pool_"}
      [] step = "create_sync_objects" -> {"device_"}
      [] step = "draw_frame" ->
             {"device_", "swap_chain_", "graphics_queue_", "present_queue_",
              "command_buffers_", "in_flight_fences_",
              "image_available_semaphores_", "render_finished_semaphores_",
              "uniform_buffers_mapped_", "swap_chain_extent_",
              "descriptor_sets_", "graphics_pipeline_", "pipeline_layout_",
              "render_pass_", "swap_chain_framebuffers_", "vertex_buffer_",
              "index_buffer_", "indices_"}
      [] OTHER -> {}

InitVulkanCallInit ==
    /\ LoopInit
    /\ find_memory_type_call = NotCalled
    /\ load_model_call = NotCalled
    /\ texture_image_call = NotCalled
    /\ transition_image_layout_call = NotCalled
    /\ read_file_call = NotCalled
    /\ create_swap_chain_call = NotCalled
    /\ find_queue_families_call = NotCalled
    /\ staged_upload_call = NotCalled
    /\ choose_swap_extent_call = NotCalled
    /\ max_usable_sample_count_call = NotCalled
    /\ \E enable_validation_layers \in BOOLEAN, layer_support \in BOOLEAN :
         init_vulkan_call =
             [at |-> "init_vulkan",
              enable_validation_layers |-> enable_validation_layers,
              layer_support |-> layer_support,
              setup_debug |-> enable_validation_layers,
              next |-> 1,
              created |-> {"window_"},
              called |-> <<>>,
              error |-> ""]

\* the next call of init_vulkan; setup_debug_messenger is called only when
\* setup_debug is true, and create_instance clears setup_debug when the
\* validation layers are not available.  Every step may throw.
InitVulkanStep ==
    /\ init_vulkan_call.at = "init_vulkan"
    /\ init_vulkan_call.next <= Len(InitVulkanSteps)
    /\ LET step == InitVulkanSteps[init_vulkan_call.next]
       IN  IF step = "setup_debug_messenger" /\ ~init_vulkan_call.setup_debug
           THEN init_vulkan_call' = [init_vulkan_call EXCEPT !.next = @ + 1]
           ELSE \E ok \in BOOLEAN :
                  init_vulkan_call' =
                      IF ok
                      THEN [init_vulkan_call EXCEPT
                              !.next = @ + 1,
                              !.created = @ \cup Creates(step),
                              !.called = Append(@, step),
                              !.setup_debug =
                                  IF step = "create_instance"
                                       /\ init_vulkan_call.enable_validation_layers
                                       /\ ~init_vulkan_call.layer_support
                                  THEN FALSE ELSE @]
                      ELSE [init_vulkan_call EXCEPT
                              !.at = "threw",
                              !.called = Append(@, step),
                              !.error = step]
    /\ UNCHANGED <<loopVars, find_memory_type_call, load_model_call,
                   texture_image_call, transition_image_layout_call,
                   read_file_call, create_swap_chain_call,
                   find_queue_families_call, staged_upload_call,
                   choose_swap_extent_call, max_usable_sample_count_call>>

\* init_vulkan returns and run() enters the main loop
InitVulkanReturn ==
    /\ init_vulkan_call.at = "init_vulkan"
    /\ init_vulkan_call.next > Len(InitVulkanSteps)
    /\ init_vulkan_call' = [init_vulkan_call EXCEPT !.at = "main_loop"]
    /\ UNCHANGED <<loopVars, find_memory_type_call, load_model_call,
                   texture_image_call, transition_image_layout_call,
                   read_file_call, create_swap_chain_call,
                   find_queue_families_call, staged_upload_call,
                   choose_swap_extent_call, max_usable_sample_count_call>>

\* the first call of draw_frame
FirstDrawFrame ==
    /\ init_vulkan_call.at = "main_loop"
    /\ init_vulkan_call' =
          [init_vulkan_call EXCEPT
              !.at = "drawing", !.called = Append(@, "draw_frame")]
    /\ UNCHANGED <<loopVars, find_memory_type_call, load_model_call,
                   texture_image_call, transition_image_layout_call,
                   read_file_call, create_swap_chain_call,
                   find_queue_families_call, staged_upload_call,
                   choose_swap_extent_call, max_usable_sample_count_call>>

InitVulkanCallNext ==
    \/ InitVulkanStep
    \/ InitVulkanReturn
    \/ FirstDrawFrame

InitVulkanCallSpec == InitVulkanCallInit /\ [][InitVulkanCallNext]_vars

\* the function init_vulkan or run() is about to call
NextCall ==
    IF init_vulkan_call.at = "main_loop" THEN "draw_frame"
    ELSE IF init_vulkan_call.at = "init_vulkan"
            /\ init_vulkan_call.next <= Len(InitVulkanSteps)
            /\ (InitVulkanSteps[init_vulkan_call.next] = "setup_debug_messenger"
                   => init_vulkan_call.setup_debug)
         THEN InitVulkanSteps[init_vulkan_call.next]
         ELSE "none"

\* C36: during init_vulkan every creation step runs only after each resource
\* it consumes has been created: the command pool before the depth-image
\* layout transition and before any staged upload, the render pass and the
\* color and depth attachment views before the framebuffers, the uniform
\* buffers, the texture view and the sampler before the descriptor-set
\* writes, and all per-slot sync objects and command buffers before the
\* first draw_frame.
C36_ConsumedResourcesAlreadyCreated ==
    init_vulkan_call.at # "not_called" =>
        /\ Consumes(NextCall) \subseteq init_vulkan_call.created
        /\ NextCall \in {"create_depth_resources", "create_texture_image",
                         "create_vertex_buffer", "create_index_buffer"} =>
              "command_pool_" \in init_vulkan_call.created
        /\ NextCall = "create_framebuffers" =>
              {"render_pass_", "color_image_view_", "depth_image_view_"}
                  \subseteq init_vulkan_call.created
        /\ NextCall = "create_descriptor_sets" =>
              {"uniform_buffers_", "texture_image_view_", "texture_sampler_"}
                  \subseteq init_vulkan_call.created
        /\ NextCall = "draw_frame" =>
              {"image_available_semaphores_", "render_finished_semaphores_",
               "in_flight_fences_", "command_buffers_"}
                  \subseteq init_vulkan_call.created

\* init_vulkan has made all its calls, the debug messenger included, and the
\* first draw_frame is about to run
C36_Witness ==
    /\ init_vulkan_call.at = "main_loop"
    /\ init_vulkan_call.setup_debug
    /\ Len(init_vulkan_call.called) = Len(InitVulkanSteps)
    /\ "swap_chain_framebuffers_" \in init_vulkan_call.created
    /\ "descriptor_sets_" \in init_vulkan_call.created

\* C37: the swapchain's requested image count is the device minimum + 1,
\* reduced to the device maximum when the maximum is nonzero and smaller; for
\* every (min, max) with max = 0 or max >= min the result is at least the
\* device minimum and, when max is nonzero, at most the device maximum.
C37_ImageCountWithinDeviceRange ==
    create_swap_chain_call.at \in {"sharing", "create", "returned", "threw"} =>
        LET capabilities == create_swap_chain_call.capabilities
            image_count == create_swap_chain_call.create_info.minImageCount
        IN  (capabilities.maxImageCount = 0
                \/ capabilities.maxImageCount >= capabilities.minImageCount) =>
               /\ image_count >= capabilities.minImageCount
               /\ capabilities.maxImageCount # 0 =>
                     image_count <= capabilities.maxImageCount

(* ---------------------------------------------------------------------- *)
(* choose_swap_extent                                                     *)
(* ---------------------------------------------------------------------- *)
\* (variant: the value is not limited from above)
StdClamp_NoUpper(v, lo, hi) == IF v < lo THEN lo ELSE v

\* std::clamp(v, lo, hi)
StdClamp(v, lo, hi) == IF v < lo THEN lo ELSE IF hi < v THEN hi ELSE v

\* the extents a surface reports: currentExtent (whose width may be
\* std::numeric_limits<uint32_t>::max()), and minImageExtent <= maxImageExtent
ExtentCapabilities ==
    {c \in [currentExtent : [width : {2, UintMax}, height : {2, UintMax}],
            minImageExtent : [width : {1, 2}, height : {1, 2}],
            maxImageExtent : [width : {2, 3}, height : {2, 3}]] :
        /\ c.minImageExtent.width <= c.maxImageExtent.width
        /\ c.minImageExtent.height <= c.maxImageExtent.height}

\* what glfwGetFramebufferSize may report
WindowFramebufferSizes == [width : {0, 2, 4}, height : {0, 2, 4}]

ChooseSwapExtentInit ==
    /\ LoopInit
    /\ find_memory_type_call = NotCalled
    /\ load_model_call = NotCalled
    /\ texture_image_call = NotCalled
    /\ transition_image_layout_call = NotCalled
    /\ read_file_call = NotCalled
    /\ create_swap_chain_call = NotCalled
    /\ find_queue_families_call = NotCalled
    /\ staged_upload_call = NotCalled
    /\ init_vulkan_call = NotCalled
    /\ max_usable_sample_count_call = NotCalled
    /\ \E capabilities \in ExtentCapabilities, window \in WindowFramebufferSizes :
         choose_swap_extent_call =
             [at |-> "test", capabilities |-> capabilities, window |-> window,
              actual_extent |-> [width |-> 0, height |-> 0],
              result |-> [width |-> 0, height |-> 0]]

\* if (capabilities.currentExtent.width != max) return currentExtent;
\* otherwise glfwGetFramebufferSize and the two casts
ChooseSwapExtentTest ==
    /\ choose_swap_extent_call.at = "test"
    /\ choose_swap_extent_call' =
         IF choose_swap_extent_call.capabilities.currentExtent.width # UintMax
         THEN [choose_swap_extent_call EXCEPT
                 !.at = "returned",
                 !.result = choose_swap_extent_call.capabilities.currentExtent]
         ELSE [choose_swap_extent_call EXCEPT
                 !.at = "clamp",
                 !.actual_extent = choose_swap_extent_call.window]
    /\ UNCHANGED <<loopVars, find_memory_type_call, load_model_call,
                   texture_image_call, transition_image_layout_call,
                   read_file_call, create_swap_chain_call,
                   find_queue_families_call, staged_upload_call,
                   init_vulkan_call, max_usable_sample_count_call>>

\* the two std::clamp calls and the return of actual_extent
ChooseSwapExtentClamp ==
    /\ choose_swap_extent_call.at = "clamp"
    /\ LET capabilities == choose_swap_extent_call.capabilities
           clamped ==
               [width |-> StdClamp(choose_swap_extent_call.actual_extent.width,
                                   capabilities.minImageExtent.width,
                                   capabilities.maxImageExtent.width),
                height |-> StdClamp(choose_swap_extent_call.actual_extent.height,
                                    capabilities.minImageExtent.height,
                                    capabilities.maxImageExtent.height)]
       IN  choose_swap_extent_call' =
               [choose_swap_extent_call EXCEPT
                  !.at = "returned", !.actual_extent = clamped, !.result = clamped]
    /\ UNCHANGED <<loopVars, find_memory_type_call, load_model_call,
                   texture_image_call, transition_image_layout_call,
                   read_file_call, create_swap_chain_call,
                   find_queue_families_call, staged_upload_call,
                   init_vulkan_call, max_usable_sample_count_call>>

ChooseSwapExtentNext ==
    \/ ChooseSwapExtentTest
    \/ ChooseSwapExtentClamp

ChooseSwapExtentSpec == ChooseSwapExtentInit /\ [][ChooseSwapExtentNext]_vars

\* v brought into lo .. hi: v itself when it lies in the range, else the
\* nearer end of the range
ClampedInto(r, v, lo, hi) ==
    /\ lo <= r /\ r <= hi
    /\ (lo <= v /\ v <= hi) => r = v
    /\ v < lo => r = lo
    /\ v > hi => r = hi

\* C38: choose_swap_extent returns the device-reported current extent
\* unchanged when the surface does not report the use-window-size sentinel;
\* when it does, it returns the window's framebuffer pixel size with width
\* and height each clamped into the device-reported [min, max] extent range,
\* so the result always lies within that range.
C38_ExtentCurrentOrClampedWindowSize ==
    choose_swap_extent_call.at = "returned" =>
        LET capabilities == choose_swap_extent_call.capabilities
            result == choose_swap_extent_call.result
        IN  IF capabilities.currentExtent.width # UintMax
            THEN result = capabilities.currentExtent
            ELSE /\ ClampedInto(result.width, choose_swap_extent_call.window.width,
                                capabilities.minImageExtent.width,
                                capabilities.maxImageExtent.width)
                 /\ ClampedInto(result.height, choose_swap_extent_call.window.height,
                                capabilities.minImageExtent.height,
                                capabilities.maxImageExtent.height)

\* the sentinel is reported, the window is wider than the largest extent and
\* has no height: the width comes down to the maximum, the height up to the
\* minimum
C38_Witness ==
    /\ choose_swap_extent_call.at = "returned"
    /\ choose_swap_extent_call.capabilities.currentExtent.width = UintMax
    /\ choose_swap_extent_call.window = [width |-> 4, height |-> 0]
    /\ choose_swap_extent_call.capabilities.maxImageExtent.width = 3
    /\ choose_swap_extent_call.result.width = 3
    /\ choose_swap_extent_call.result.height =
           choose_swap_extent_call.capabilities.minImageExtent.height

(* ---------------------------------------------------------------------- *)
(* max_usable_sample_count                                                *)
(* ---------------------------------------------------------------------- *)
\* (variant: the sample counts are tested from the smallest up)
SampleCountTests_Ascending == <<2, 4, 8, 16, 32, 64>>

\* VK_SAMPLE_COUNT_64_BIT ... VK_SAMPLE_COUNT_2_BIT (the value of
\* VK_SAMPLE_COUNT_n_BIT is n), in the order the function tests them
SampleCountTests == <<64, 32, 16, 8, 4, 2>>

\* VkSampleCountFlags with any of the bits VK_SAMPLE_COUNT_1_BIT ..
\* VK_SAMPLE_COUNT_64_BIT
SampleCountFlags == 0 .. 127

MaxUsableSampleCountInit ==
    /\ LoopInit
    /\ find_memory_type_call = NotCalled
    /\ load_model_call = NotCalled
    /\ texture_image_call = NotCalled
    /\ transition_image_layout_call = NotCalled
    /\ read_file_call = NotCalled
    /\ create_swap_chain_call = NotCalled
    /\ find_queue_families_call = NotCalled
    /\ staged_upload_call = NotCalled
    /\ init_vulkan_call = NotCalled
    /\ choose_swap_extent_call = NotCalled
    /\ \E color \in SampleCountFlags, depth \in SampleCountFlags :
         max_usable_sample_count_call =
             [at |-> "test",
              framebufferColorSampleCounts |-> color,
              framebufferDepthSampleCounts |-> depth,
              counts |-> BitAnd(color, depth),
              next |-> 1,
              result |-> 0]

\* the next `if (counts & VK_SAMPLE_COUNT_n_BIT) return ...`
MaxUsableSampleCountTest ==
    /\ max_usable_sample_count_call.at = "test"
    /\ max_usable_sample_count_call.next <= Len(SampleCountTests)
    /\ LET bit == SampleCountTests[max_usable_sample_count_call.next]
       IN  max_usable_sample_count_call' =
               IF BitAnd(max_usable_sample_count_call.counts, bit) # 0
               THEN [max_usable_sample_count_call EXCEPT
                       !.at = "returned", !.result = bit]
               ELSE [max_usable_sample_count_call EXCEPT !.next = @ + 1]
    /\ UNCHANGED <<loopVars, find_memory_type_call, load_model_call,
                   texture_image_call, transition_image_layout_call,
                   read_file_call, create_swap_chain_call,
                   find_queue_families_call, staged_upload_call,
                   init_vulkan_call, choose_swap_extent_call>>

\* return VK_SAMPLE_COUNT_1_BIT
MaxUsableSampleCountDefault ==
    /\ max_usable_sample_count_call.at = "test"
    /\ max_usable_sample_count_call.next > Len(SampleCountTests)
    /\ max_usable_sample_count_call' =
           [max_usable_sample_count_call EXCEPT !.at = "returned", !.result = 1]
    /\ UNCHANGED <<loopVars, find_memory_type_call, load_model_call,
                   texture_image_call, transition_image_layout_call,
                   read_file_call, create_swap_chain_call,
                   find_queue_families_call, staged_upload_call,
                   init_vulkan_call, choose_swap_extent_call>>

MaxUsableSampleCountNext ==
    \/ MaxUsableSampleCountTest
    \/ MaxUsableSampleCountDefault

MaxUsableSampleCountSpec ==
    MaxUsableSampleCountInit /\ [][MaxUsableSampleCountNext]_vars

\* the sample counts n in {2, 4, ..., 64} whose bit is set in both masks
CommonSampleCounts(color, depth) ==
    {2 ^ b : b \in {b \in 1 .. 6 : BitSet(color, b) /\ BitSet(depth, b)}}

\* C39: for every pair of supported color and depth sample-count bitmasks,
\* max_usable_sample_count returns the largest count among 64, 32, 16, 8, 4,
\* 2 that is set in both masks, and returns 1 when none of them is set in
\* both; it never fails.
C39_LargestCommonSampleCount ==
    max_usable_sample_count_call.at # "not_called" =>
        LET common ==
                CommonSampleCounts(
                    max_usable_sample_count_call.framebufferColorSampleCounts,
                    max_usable_sample_count_call.framebufferDepthSampleCounts)
        IN  /\ max_usable_sample_count_call.at \in {"test", "returned"}
            /\ max_usable_sample_count_call.at = "test" =>
                  ENABLED MaxUsableSampleCountNext
            /\ max_usable_sample_count_call.at = "returned" =>
                  IF common = {}
                  THEN max_usable_sample_count_call.result = 1
                  ELSE /\ max_usable_sample_count_call.result \in common
                       /\ \A n \in common : n <= max_usable_sample_count_call.result

\* color supports 1, 2, 4, 8 and 16 samples, depth 1, 2, 4 and 64: the
\* function has passed the tests of 64, 32, 16 and 8 and returned 4
C39_Witness ==
    /\ max_usable_sample_count_call.at = "returned"
    /\ max_usable_sample_count_call.framebufferColorSampleCounts = 31
    /\ max_usable_sample_count_call.framebufferDepthSampleCounts = 71
    /\ max_usable_sample_count_call.next = 5
    /\ max_usable_sample_count_call.result = 4

====
